---- MODULE Spec2Model ----
(***************************************************************************)
(* Minoc: the agent loop (ChatEngine), the permission policy               *)
(* (PermissionManager over SecurityManager) and the tool registry          *)
(* (ToolExecutor), as a state machine of one session.                      *)
(*                                                                         *)
(* Text is modelled as a sequence of one-character strings, so that the    *)
(* substring, prefix and case-folding tests of the source are computed and *)
(* not assumed.  A parameter value is a record [t, s]: its JavaScript type *)
(* after ToolExecutor.parseParameterValue and its text.                    *)
(*                                                                         *)
(* The history recorder and the tool handlers' I/O are collaborators: a    *)
(* recordMessage call is taken to succeed, a handler's outcome is a        *)
(* nondeterministic choice where the source leaves it to the environment.  *)
(***************************************************************************)
EXTENDS Integers, Sequences, FiniteSets, TLC

VARIABLES
  pc,                  \* position of the session's single thread of control
  iteration,           \* llmLoop: let iteration
  modelCalls,          \* chatCompletion calls made in the current turn
  allToolCalls,        \* llmLoop: the <tool_call> blocks of response.content (empty outside a pass)
  toolCall,            \* handleToolCall: toolCall of the current pass, or Null
  permissionResult,    \* handleToolCall: permissionResult, or Null
  approval,            \* handleToolCall: approval.choice, or "none"
  toolResult,          \* handleToolCall: result of executeTool, or Null
  recorded,            \* messages recorded since the pass began (tail of session.messages)
  nCorrective,         \* 'no_tool_call' warning messages recorded in the current turn
  zeroBlockCompletions,\* completions of the current turn that held no <tool_call> block
  exitReason,          \* how llmLoop was left: "none", "respond", "error", "cap"
  warned,              \* the max-iterations warning was printed for the current turn
  permissionSettings,  \* PermissionManager.permissionSettings (the cache), or Null
  storedPermissions,   \* permissions.toml as the ConfigManager returns it
  securitySettings,    \* SecurityManager.securitySettings
  handlerInvoked,      \* executeTool reached tool.execute in the current pass
  transport,           \* what chat.completions.create does at each attempt of one call
  attempt,             \* executeWithRetry: let attempt
  attempts,            \* calls of operation() made by the current chatCompletion
  delays,              \* the setTimeout delays executeWithRetry has waited, in order
  lastError,           \* executeWithRetry: lastError, or Null
  callOutcome,         \* what chatCompletion returned or threw, or Null
  handler,             \* position of InputHandler.startChatLoop
  inFlight,            \* awaited calls begun and not yet settled, by kind
  configReads,         \* getPermissionSettings calls that returned, by PermissionManager instance
  lastSaver            \* the instance whose savePermissionSettings completed last, or "none"

vars == << pc, iteration, modelCalls, allToolCalls, toolCall, permissionResult,
           approval, toolResult, recorded, nCorrective, zeroBlockCompletions,
           exitReason, warned, permissionSettings, storedPermissions,
           securitySettings, handlerInvoked, transport, attempt, attempts,
           delays, lastError, callOutcome, handler, inFlight, configReads,
           lastSaver >>

\* The state of the agent loop and of the permission policy
loopVars == << pc, iteration, modelCalls, allToolCalls, toolCall, permissionResult,
               approval, toolResult, recorded, nCorrective, zeroBlockCompletions,
               exitReason, warned, permissionSettings, storedPermissions,
               securitySettings, handlerInvoked >>

\* The state of one chatCompletion call of the OpenAIClient
clientVars == << transport, attempt, attempts, delays, lastError, callOutcome >>

\* The state of the input loop and of the calls the session awaits
sessionVars == << handler, inFlight >>

\* The awaited calls of a turn that the operator, the model or a tool serve
Activities == {"model", "approval", "execution"}

\* No awaited call is under way
NoActivity == [ a \in Activities |-> 0 ]

\* startChatLoop is at getUserInput and nothing is awaited
SessionIdle ==
  /\ handler = "reading"
  /\ inFlight = NoActivity

\* What tells the PermissionManager instances of concurrent sessions apart
sharedVars == << configReads, lastSaver >>

\* The PermissionManager instances that share permissions.toml
Instances == {"a", "b"}

\* No instance has read the configuration and none has saved
SharedIdle ==
  /\ configReads = [ i \in Instances |-> 0 ]
  /\ lastSaver = "none"

Null == [null |-> TRUE]

(***************************************************************************)
(* Text                                                                    *)
(***************************************************************************)
UpperCase == << "A","B","C","D","E","F","G","H","I","J","K","L","M",
                "N","O","P","Q","R","S","T","U","V","W","X","Y","Z" >>

LowerCase == << "a","b","c","d","e","f","g","h","i","j","k","l","m",
                "n","o","p","q","r","s","t","u","v","w","x","y","z" >>

\* String.prototype.toLowerCase on one character
toLowerChar(c) ==
  IF \E i \in 1..Len(UpperCase) : UpperCase[i] = c
  THEN LowerCase[CHOOSE i \in 1..Len(UpperCase) : UpperCase[i] = c]
  ELSE c

toLowerCase(s) == [i \in 1..Len(s) |-> toLowerChar(s[i])]

\* String.prototype.includes
includes(text, pat) ==
  \E i \in 1..(Len(text) - Len(pat) + 1) :
     \A j \in 1..Len(pat) : text[i + j - 1] = pat[j]

\* String.prototype.startsWith
startsWith(text, pat) ==
  /\ Len(pat) <= Len(text)
  /\ \A j \in 1..Len(pat) : text[j] = pat[j]

\* String.prototype.endsWith
endsWith(text, pat) ==
  /\ Len(pat) <= Len(text)
  /\ \A j \in 1..Len(pat) : text[Len(text) - Len(pat) + j] = pat[j]

\* path.replace(/\\/g, '/')
replaceBackslashes(s) == [i \in 1..Len(s) |-> IF s[i] = "\\" THEN "/" ELSE s[i]]

(***************************************************************************)
(* Parameter values                                                        *)
(***************************************************************************)
Str(s)  == [t |-> "string",  s |-> s]
Num(s)  == [t |-> "number",  s |-> s]
Bool(s) == [t |-> "boolean", s |-> s]

\* A parameter whose value is null (or undefined)
NullValue == [t |-> "null", s |-> << >>]

\* JavaScript truthiness of a parameter value ('if (command)', 'path && ...')
Truthy(v) ==
  CASE v.t = "string"  -> v.s # << >>
    [] v.t = "number"  -> \E i \in 1..Len(v.s) : v.s[i] \notin {"0", "."}
    [] v.t = "boolean" -> v.s = <<"t","r","u","e">>
    [] v.t = "null"    -> FALSE
    [] OTHER           -> TRUE

\* parameters[key] is neither undefined nor null
HasParameter(parameters, key) ==
  key \in DOMAIN parameters /\ parameters[key].t # "null"

(***************************************************************************)
(* SecurityManager                                                         *)
(***************************************************************************)
\* ConfigManager.getSecuritySettings: defaultSettings.riskLevels
DefaultRiskLevels ==
  [ high   |-> << <<"r","m"," ","-","r","f">>,
                  <<"d","e","l"," ","/","s">>,
                  <<"f","o","r","m","a","t">>,
                  <<"f","d","i","s","k">>,
                  <<"m","k","f","s">>,
                  <<"d","d"," ","i","f","=">>,
                  <<"s","u","d","o">>,
                  <<"r","u","n","a","s">>,
                  <<"s","h","u","t","d","o","w","n">>,
                  <<"r","e","b","o","o","t">>,
                  <<"h","a","l","t">> >>,
    medium |-> << <<"c","h","m","o","d"," ","7","7","7">>,
                  <<"c","h","o","w","n">>,
                  <<"s","y","s","t","e","m","c","t","l">>,
                  <<"s","e","r","v","i","c","e">>,
                  <<"c","r","o","n","t","a","b">>,
                  <<"r","e","g"," ","a","d","d">>,
                  <<"r","e","g"," ","d","e","l","e","t","e">> >>,
    low    |-> << <<"p","s"," ","a","u","x">>,
                  <<"n","e","t","s","t","a","t">>,
                  <<"l","s","o","f">>,
                  <<"t","o","p">>,
                  <<"h","t","o","p">> >> ]

\* SecurityManager.isDangerousPath: const dangerousPaths
dangerousPaths ==
  << <<"/","e","t","c","/">>,
     <<"/","b","i","n","/">>,
     <<"/","s","b","i","n","/">>,
     <<"/","u","s","r","/","b","i","n","/">>,
     <<"/","u","s","r","/","s","b","i","n","/">>,
     <<"/","s","y","s","t","e","m","/">>,
     <<"/","w","i","n","d","o","w","s","/">>,
     <<"c",":","\\","w","i","n","d","o","w","s","\\">>,
     <<"c",":","\\","p","r","o","g","r","a","m"," ","f","i","l","e","s","\\">>,
     <<"/","b","o","o","t","/">>,
     <<"/","d","e","v","/">>,
     <<"/","p","r","o","c","/">>,
     <<"/","s","y","s","/">> >>

\* An exception leaving a call (a TypeError of text.toLowerCase on a non-string)
Raised == [raised |-> TRUE]

IsRaised(r) == "raised" \in DOMAIN r

\* pattern.startsWith('/') && pattern.endsWith('/')
IsRegexPattern(pattern) ==
  startsWith(pattern, <<"/">>) /\ endsWith(pattern, <<"/">>)

\* pattern.slice(1, -1)
RegexBody(pattern) == SubSeq(pattern, 2, Len(pattern) - 1)

\* new RegExp(body, 'i') does not throw.  The model's patterns are literal
\* text; the one metacharacter they may hold is an unbalanced '('.
RegexCompiles(body) == \A i \in 1..Len(body) : body[i] # "("

\* new RegExp(body, 'i').test(text) for a body of literal characters and
\* '.', which stands for any one character
RegexTest(body, text) ==
  \E i \in 1..(Len(text) - Len(body) + 1) :
     \A j \in 1..Len(body) :
        body[j] = "." \/ toLowerChar(text[i + j - 1]) = toLowerChar(body[j])

\* The loop body of findMatchingPattern without its catch clause: a pattern
\* that does not compile leaves the loop as an exception
PatternOutcomeBadRegexRaises(text, pattern) ==
  LET substring ==
        IF text.t # "string" THEN "throw"
        ELSE IF includes(toLowerCase(text.s), toLowerCase(pattern))
             THEN "match" ELSE "nomatch"
  IN IF IsRegexPattern(pattern)
     THEN IF RegexCompiles(RegexBody(pattern))
          THEN IF RegexTest(RegexBody(pattern), text.s) THEN "match" ELSE "nomatch"
          ELSE "throw"
     ELSE substring

\* One pass of the loop body of findMatchingPattern for one pattern:
\* "match", "nomatch", or "throw" when text.toLowerCase is not a function.
PatternOutcome(text, pattern) ==
  LET substring ==
        IF text.t # "string" THEN "throw"
        ELSE IF includes(toLowerCase(text.s), toLowerCase(pattern))
             THEN "match" ELSE "nomatch"
  IN IF IsRegexPattern(pattern)
     THEN IF RegexCompiles(RegexBody(pattern))
          THEN IF RegexTest(RegexBody(pattern), text.s) THEN "match" ELSE "nomatch"
          ELSE substring
     ELSE substring

\* SecurityManager.findMatchingPattern: the index of the first matching
\* pattern, 0 for null, -1 when an exception leaves the loop.
findMatchingPattern(text, patterns) ==
  LET hits == { i \in 1..Len(patterns) : PatternOutcome(text, patterns[i]) # "nomatch" }
  IN IF hits = {} THEN 0
     ELSE LET k == CHOOSE i \in hits : \A j \in hits : i <= j
          IN IF PatternOutcome(text, patterns[k]) = "throw" THEN -1 ELSE k

SecurityCheckResult(allowed, riskLevel, blockedReason, warning) ==
  [ allowed |-> allowed, riskLevel |-> riskLevel,
    blockedReason |-> blockedReason, warning |-> warning ]

\* checkCommand consulting the medium list before the two deny lists
checkCommandMediumFirst(command, settings) ==
  IF ~settings.enableBlocklist
  THEN SecurityCheckResult(TRUE, "low", "", FALSE)
  ELSE
    LET mediumRiskMatch == findMatchingPattern(command, settings.riskLevels.medium) IN
    IF mediumRiskMatch = -1 THEN Raised
    ELSE IF mediumRiskMatch # 0
    THEN SecurityCheckResult(TRUE, "medium", "", settings.showSecurityWarnings)
    ELSE
      LET highRiskMatch == findMatchingPattern(command, settings.riskLevels.high) IN
      IF highRiskMatch # 0
      THEN SecurityCheckResult(FALSE, "high", "high_risk_command", FALSE)
      ELSE
        LET customBlockMatch == findMatchingPattern(command, settings.customBlocklist) IN
        IF customBlockMatch # 0
        THEN SecurityCheckResult(FALSE, "high", "custom_blocklist", FALSE)
        ELSE SecurityCheckResult(TRUE, "low", "", FALSE)

\* checkCommand letting a command of the custom blocklist through as high risk
checkCommandCustomBlockAllowed(command, settings) ==
  IF ~settings.enableBlocklist
  THEN SecurityCheckResult(TRUE, "low", "", FALSE)
  ELSE
    LET highRiskMatch == findMatchingPattern(command, settings.riskLevels.high) IN
    IF highRiskMatch = -1 THEN Raised
    ELSE IF highRiskMatch # 0
    THEN SecurityCheckResult(FALSE, "high", "high_risk_command", FALSE)
    ELSE
      LET customBlockMatch == findMatchingPattern(command, settings.customBlocklist) IN
      IF customBlockMatch = -1 THEN Raised
      ELSE IF customBlockMatch # 0
      THEN SecurityCheckResult(TRUE, "high", "", settings.showSecurityWarnings)
      ELSE
        LET mediumRiskMatch == findMatchingPattern(command, settings.riskLevels.medium) IN
        IF mediumRiskMatch = -1 THEN Raised
        ELSE IF mediumRiskMatch # 0
        THEN SecurityCheckResult(TRUE, "medium", "", settings.showSecurityWarnings)
        ELSE
          LET lowRiskMatch == findMatchingPattern(command, settings.riskLevels.low) IN
          IF lowRiskMatch = -1 THEN Raised
          ELSE SecurityCheckResult(TRUE, "low", "", FALSE)

\* SecurityManager.checkCommand
checkCommand(command, settings) ==
  IF ~settings.enableBlocklist
  THEN SecurityCheckResult(TRUE, "low", "", FALSE)
  ELSE
    LET highRiskMatch == findMatchingPattern(command, settings.riskLevels.high) IN
    IF highRiskMatch = -1 THEN Raised
    ELSE IF highRiskMatch # 0
    THEN SecurityCheckResult(FALSE, "high", "high_risk_command", FALSE)
    ELSE
      LET customBlockMatch == findMatchingPattern(command, settings.customBlocklist) IN
      IF customBlockMatch = -1 THEN Raised
      ELSE IF customBlockMatch # 0
      THEN SecurityCheckResult(FALSE, "high", "custom_blocklist", FALSE)
      ELSE
        LET mediumRiskMatch == findMatchingPattern(command, settings.riskLevels.medium) IN
        IF mediumRiskMatch = -1 THEN Raised
        ELSE IF mediumRiskMatch # 0
        THEN SecurityCheckResult(TRUE, "medium", "", settings.showSecurityWarnings)
        ELSE
          LET lowRiskMatch == findMatchingPattern(command, settings.riskLevels.low) IN
          IF lowRiskMatch = -1 THEN Raised
          ELSE SecurityCheckResult(TRUE, "low", "", FALSE)

\* SecurityManager.isDangerousPath (path is a string)
isDangerousPath(path) ==
  LET normalizedPath == replaceBackslashes(toLowerCase(path))
  IN \E i \in 1..Len(dangerousPaths) : startsWith(normalizedPath, dangerousPaths[i])

\* 'path && this.isDangerousPath(path)' of the write_to_file and
\* create_directory cases: "yes", "no", or "throw" for a truthy non-string
\* (path.toLowerCase is not a function).
DangerousPathParameter(parameters) ==
  IF ~HasParameter(parameters, "path") THEN "no"
  ELSE IF ~Truthy(parameters["path"]) THEN "no"
  ELSE IF parameters["path"].t # "string" THEN "throw"
  ELSE IF isDangerousPath(parameters["path"].s) THEN "yes" ELSE "no"

\* SecurityManager.checkTool
checkTool(toolName, parameters, settings) ==
  CASE toolName = "execute_command" ->
         IF HasParameter(parameters, "command") /\ Truthy(parameters["command"])
         THEN checkCommand(parameters["command"], settings)
         ELSE SecurityCheckResult(TRUE, "low", "", FALSE)
    [] toolName = "write_to_file" ->
         LET dangerous == DangerousPathParameter(parameters) IN
         IF dangerous = "throw" THEN Raised
         ELSE IF dangerous = "yes"
         THEN SecurityCheckResult(FALSE, "high", "dangerous_write_path", FALSE)
         ELSE SecurityCheckResult(TRUE, "medium", "", settings.showSecurityWarnings)
    [] toolName = "create_directory" ->
         LET dangerous == DangerousPathParameter(parameters) IN
         IF dangerous = "throw" THEN Raised
         ELSE IF dangerous = "yes"
         THEN SecurityCheckResult(FALSE, "high", "dangerous_directory_path", FALSE)
         ELSE SecurityCheckResult(TRUE, "medium", "", settings.showSecurityWarnings)
    [] toolName \in {"read_file", "find_files_by_name",
                     "search_content_in_files", "read_files"} ->
         SecurityCheckResult(TRUE, "medium", "", settings.showSecurityWarnings)
    [] toolName = "list_directory" ->
         SecurityCheckResult(TRUE, "low", "", FALSE)
    [] OTHER ->
         SecurityCheckResult(TRUE, "low", "", FALSE)

(***************************************************************************)
(* PermissionManager                                                       *)
(***************************************************************************)
\* Array.prototype.includes on a list of names
listIncludes(list, name) == \E i \in 1..Len(list) : list[i] = name

\* shouldRequireApproval with the permissive level treated like normal
shouldRequireApprovalPermissiveAsNormal(call, settings, securityResult) ==
  IF call.requiresApproval = <<TRUE>> THEN TRUE
  ELSE IF call.requiresApproval = <<FALSE>> THEN FALSE
  ELSE CASE settings.permissionLevel = "strict" -> TRUE
         [] OTHER -> securityResult.riskLevel \in {"medium", "high"}

\* shouldRequireApproval with the level consulted before the per-call flag
shouldRequireApprovalLevelFirst(call, settings, securityResult) ==
  CASE settings.permissionLevel = "strict" -> TRUE
    [] settings.permissionLevel = "permissive" -> securityResult.riskLevel = "high"
    [] OTHER -> securityResult.riskLevel \in {"medium", "high"}

\* shouldRequireApproval honouring a requiresApproval parameter of the call
shouldRequireApprovalReadsParameter(call, settings, securityResult) ==
  IF call.requiresApproval = <<TRUE>> THEN TRUE
  ELSE IF call.requiresApproval = <<FALSE>> THEN FALSE
  ELSE IF /\ HasParameter(call.parameters, "requiresApproval")
          /\ call.parameters["requiresApproval"].t = "boolean"
  THEN call.parameters["requiresApproval"].s = <<"t","r","u","e">>
  ELSE CASE settings.permissionLevel = "strict" -> TRUE
         [] settings.permissionLevel = "permissive" ->
              securityResult.riskLevel = "high"
         [] OTHER ->
              securityResult.riskLevel \in {"medium", "high"}

\* PermissionManager.shouldRequireApproval
shouldRequireApproval(call, settings, securityResult) ==
  IF call.requiresApproval = <<TRUE>> THEN TRUE
  ELSE IF call.requiresApproval = <<FALSE>> THEN FALSE
  ELSE CASE settings.permissionLevel = "strict" -> TRUE
         [] settings.permissionLevel = "permissive" ->
              securityResult.riskLevel = "high"
         [] OTHER ->
              securityResult.riskLevel \in {"medium", "high"}

PermissionResult(allowed, requiresApproval, reason, securityResult) ==
  [ allowed |-> allowed, requiresApproval |-> requiresApproval,
    reason |-> reason, securityResult |-> securityResult ]

\* checkPermission with a security denial offered for approval
checkPermissionEscalatesDenial(call, settings, secSettings) ==
  LET securityResult == checkTool(call.toolName, call.parameters, secSettings) IN
  IF IsRaised(securityResult) THEN Raised
  ELSE IF ~securityResult.allowed
  THEN PermissionResult(TRUE, TRUE, securityResult.blockedReason, securityResult)
  ELSE IF listIncludes(settings.permanentlyAllowed, call.toolName)
  THEN PermissionResult(TRUE, FALSE, "", securityResult)
  ELSE PermissionResult(TRUE, shouldRequireApproval(call, settings, securityResult),
                        "", securityResult)

\* checkPermission without the permanently-allowed test
checkPermissionSkipsAllowList(call, settings, secSettings) ==
  LET securityResult == checkTool(call.toolName, call.parameters, secSettings) IN
  IF IsRaised(securityResult) THEN Raised
  ELSE IF ~securityResult.allowed
  THEN PermissionResult(FALSE, FALSE, securityResult.blockedReason, securityResult)
  ELSE PermissionResult(TRUE, shouldRequireApproval(call, settings, securityResult),
                        "", securityResult)

\* checkPermission with the permanently-allowed test ahead of the security verdict
checkPermissionAllowListFirst(call, settings, secSettings) ==
  LET securityResult == checkTool(call.toolName, call.parameters, secSettings) IN
  IF IsRaised(securityResult) THEN Raised
  ELSE IF listIncludes(settings.permanentlyAllowed, call.toolName)
  THEN PermissionResult(TRUE, FALSE, "", securityResult)
  ELSE IF ~securityResult.allowed
  THEN PermissionResult(FALSE, FALSE, securityResult.blockedReason, securityResult)
  ELSE PermissionResult(TRUE, shouldRequireApproval(call, settings, securityResult),
                        "", securityResult)

\* checkPermission denying the tools of the autoReject list
checkPermissionConsultsAutoReject(call, settings, secSettings) ==
  LET securityResult == checkTool(call.toolName, call.parameters, secSettings) IN
  IF IsRaised(securityResult) THEN Raised
  ELSE IF ~securityResult.allowed
  THEN PermissionResult(FALSE, FALSE, securityResult.blockedReason, securityResult)
  ELSE IF listIncludes(settings.autoReject, call.toolName)
  THEN PermissionResult(FALSE, FALSE, "auto_reject", securityResult)
  ELSE IF listIncludes(settings.permanentlyAllowed, call.toolName)
  THEN PermissionResult(TRUE, FALSE, "", securityResult)
  ELSE PermissionResult(TRUE, shouldRequireApproval(call, settings, securityResult),
                        "", securityResult)

\* PermissionManager.checkPermission, on the loaded settings
checkPermission(call, settings, secSettings) ==
  LET securityResult == checkTool(call.toolName, call.parameters, secSettings) IN
  IF IsRaised(securityResult) THEN Raised
  ELSE IF ~securityResult.allowed
  THEN PermissionResult(FALSE, FALSE, securityResult.blockedReason, securityResult)
  ELSE IF listIncludes(settings.permanentlyAllowed, call.toolName)
  THEN PermissionResult(TRUE, FALSE, "", securityResult)
  ELSE PermissionResult(TRUE, shouldRequireApproval(call, settings, securityResult),
                        "", securityResult)

(***************************************************************************)
(* ToolExecutor: the registry and executeTool                              *)
(***************************************************************************)
\* ToolExecutor.registerDefaultTools: name -> requiredParameters
DefaultTools ==
  [ read_file               |-> {"path"},
    write_to_file           |-> {"path", "content"},
    create_directory        |-> {"path"},
    find_files_by_name      |-> {},
    search_content_in_files |-> {"searchText"},
    list_directory          |-> {"path"},
    execute_command         |-> {"command"},
    read_files              |-> {"paths"},
    respond_to_user         |-> {"message"} ]

\* validateParameters testing only that each required key is there
validateParametersPresenceOnly(requiredParameters, parameters) ==
  \A required \in requiredParameters : required \in DOMAIN parameters

\* BaseTool.validateParameters, for parameters that are an object
validateParameters(requiredParameters, parameters) ==
  \A required \in requiredParameters : HasParameter(parameters, required)

\* BaseTool.validateParameters raises a TypeError: 'required in parameters'
\* is evaluated with parameters null or undefined (Null in the model)
ValidateThrows(requiredParameters, parameters) ==
  requiredParameters # {} /\ parameters = Null

ToolResult(success, error, output) ==
  [ success |-> success, error |-> error, output |-> output ]

\* RespondToUserTool.execute: type defaults to 'success'; only 'success'
\* and 'error' are accepted.
RespondToUserExecute(parameters) ==
  LET type == IF HasParameter(parameters, "type")
              THEN parameters["type"]
              ELSE Str(<<"s","u","c","c","e","s","s">>)
  IN IF type # Str(<<"s","u","c","c","e","s","s">>) /\ type # Str(<<"e","r","r","o","r">>)
     THEN ToolResult(FALSE, "invalid_message_type", "")
     ELSE ToolResult(TRUE, "", "response_shown")

\* What a handler whose result depends on the file system or on a spawned
\* process does: it returns success, returns a failure, or throws
HandlerOutcomes == {"success", "failure", "throw"}

\* executeTool: the try block around tool.execute
RunHandler(call, outcome) ==
  IF call.toolName = "respond_to_user"
  THEN RespondToUserExecute(call.parameters)
  ELSE CASE outcome = "success" -> ToolResult(TRUE, "", "handler_output")
         [] outcome = "failure" -> ToolResult(FALSE, "handler_error", "")
         [] OTHER               -> ToolResult(FALSE, "execution_error", "")

\* ToolExecutor.executeTool: its result (Raised when an exception leaves
\* it) and whether it called tool.execute
ExecuteToolRun(call, outcome) ==
  IF call.toolName \notin DOMAIN DefaultTools
  THEN [ result |-> ToolResult(FALSE, "unknown_tool", ""), invoked |-> FALSE ]
  ELSE IF ValidateThrows(DefaultTools[call.toolName], call.parameters)
  THEN [ result |-> Raised, invoked |-> FALSE ]
  ELSE IF ~validateParameters(DefaultTools[call.toolName], call.parameters)
  THEN [ result |-> ToolResult(FALSE, "invalid_parameters", ""), invoked |-> FALSE ]
  ELSE [ result |-> RunHandler(call, outcome), invoked |-> TRUE ]

\* ToolExecutor.executeTool
executeTool(call, outcome) == ExecuteToolRun(call, outcome).result

(***************************************************************************)
(* OpenAIClient: chatCompletion, convertError, executeWithRetry            *)
(*                                                                         *)
(* A message is a sequence of characters.  The Japanese literals of the    *)
(* source are written in Latin letters, one word per literal, so that the  *)
(* substring tests of convertError are computed on them as on the others.  *)
(***************************************************************************)
\* OpenAIClient constructor: this.retryConfig
retryConfig == [ maxRetries |-> 3, baseDelay |-> 1000, maxDelay |-> 16000 ]

\* '空の応答', the text convertError looks for
EmptyResponseMarker == <<"k","a","r","a","-","n","o","-","o","u","t","o","u">>

\* '空の応答を受信しました', thrown for a blank completion
EmptyResponseMessage ==
  EmptyResponseMarker \o <<"-","w","o","-","j","u","s","h","i","n">>

\* 'APIレスポンスが無効です', thrown when the response has no choice
InvalidResponseMessage == <<"A","P","I","-","m","u","k","o","u">>

RateLimitMessage == <<"r","a","t","e","-","s","e","i","g","e","n">>

AuthMessage == <<"n","i","n","s","h","o","u","-","s","h","i","p","p","a","i">>

ServerMessage == <<"s","e","r","v","e","r","-","e","r","r","o","r">>

NetworkMessage == <<"n","e","t","-","e","r","r","o","r">>

UnknownMessage == <<"f","u","m","e","i","-","e","r","r","o","r">>

\* A value thrown that is an instance of Error; status is << >> when the
\* error has no 'status' property, else << n >>
JsError(status, message) ==
  [ instanceOfError |-> TRUE, status |-> status, message |-> message ]

\* A thrown value that is no instance of Error
NonError == [ instanceOfError |-> FALSE ]

\* The ApiError object literal: a plain object, no instance of Error
ApiError(type, message, retryable) ==
  [ instanceOfError |-> FALSE, type |-> type, message |-> message,
    retryable |-> retryable ]

\* convertError testing the message for fetch and network before the status
convertErrorMessageFirst(error) ==
  IF error.instanceOfError
  THEN IF includes(error.message, EmptyResponseMarker)
       THEN ApiError("server", error.message, TRUE)
       ELSE IF \/ includes(error.message, <<"f","e","t","c","h">>)
               \/ includes(error.message, <<"n","e","t","w","o","r","k">>)
       THEN ApiError("network", NetworkMessage, TRUE)
       ELSE IF error.status # << >> /\ error.status[1] = 429
       THEN ApiError("rate_limit", RateLimitMessage, TRUE)
       ELSE IF error.status # << >> /\ error.status[1] \in {401, 403}
       THEN ApiError("auth", AuthMessage, FALSE)
       ELSE IF error.status # << >> /\ error.status[1] >= 500
       THEN ApiError("server", ServerMessage, TRUE)
       ELSE ApiError("unknown", error.message, FALSE)
  ELSE ApiError("unknown", UnknownMessage, FALSE)

\* OpenAIClient.convertError
convertError(error) ==
  IF error.instanceOfError
  THEN IF includes(error.message, EmptyResponseMarker)
       THEN ApiError("server", error.message, TRUE)
       ELSE IF error.status # << >> /\ error.status[1] = 429
       THEN ApiError("rate_limit", RateLimitMessage, TRUE)
       ELSE IF error.status # << >> /\ error.status[1] \in {401, 403}
       THEN ApiError("auth", AuthMessage, FALSE)
       ELSE IF error.status # << >> /\ error.status[1] >= 500
       THEN ApiError("server", ServerMessage, TRUE)
       ELSE IF \/ includes(error.message, <<"f","e","t","c","h">>)
               \/ includes(error.message, <<"n","e","t","w","o","r","k">>)
       THEN ApiError("network", NetworkMessage, TRUE)
       ELSE ApiError("unknown", error.message, FALSE)
  ELSE ApiError("unknown", UnknownMessage, FALSE)

\* String.prototype.trim leaves nothing: every character is white space
IsBlank(content) == \A i \in 1..Len(content) : content[i] \in {" ", "\n", "\t"}

\* What chat.completions.create does at one attempt: it resolves with a
\* response (choice says whether choices[0].message exists, content is
\* message.content, << >> for null) or rejects with a thrown value
Resolves(choice, content) == [ resolves |-> TRUE, choice |-> choice, content |-> content ]

Rejects(error) == [ resolves |-> FALSE, error |-> error ]

Returned(content) == [ returned |-> TRUE, content |-> content ]

Thrown(error) == [ returned |-> FALSE, error |-> error ]

\* chatCompletion: the closure handed to executeWithRetry; whatever is
\* thrown inside its try block leaves it as convertError of that value
operation(response) ==
  LET inner ==
        IF ~response.resolves THEN Thrown(response.error)
        ELSE IF ~response.choice
        THEN Thrown(JsError(<< >>, InvalidResponseMessage))
        ELSE IF IsBlank(response.content)
        THEN Thrown(JsError(<< >>, EmptyResponseMessage))
        ELSE Returned(response.content)
  IN IF inner.returned THEN inner ELSE Thrown(convertError(inner.error))

\* executeWithRetry: Math.min(baseDelay * Math.pow(2, attempt), maxDelay)
BackoffDelay(n) ==
  LET d == retryConfig.baseDelay * (2 ^ n)
  IN IF d < retryConfig.maxDelay THEN d ELSE retryConfig.maxDelay

\* No chatCompletion call is under way
ClientIdle ==
  /\ transport = << >>
  /\ attempt = 0
  /\ attempts = 0
  /\ delays = << >>
  /\ lastError = Null
  /\ callOutcome = Null

\* OpenAIClient.chatCompletion up to the first pass of executeWithRetry;
\* script is what the transport will do at each attempt
ChatCompletion(scripts) ==
  /\ pc = "client"
  /\ \E script \in scripts : transport' = script
  /\ attempt' = 0
  /\ attempts' = 0
  /\ delays' = << >>
  /\ lastError' = Null
  /\ callOutcome' = Null
  /\ pc' = "attempting"
  /\ UNCHANGED << iteration, modelCalls, allToolCalls, toolCall, permissionResult,
                  approval, toolResult, recorded, nCorrective, zeroBlockCompletions,
                  exitReason, warned, permissionSettings, storedPermissions,
                  securitySettings, handlerInvoked >>
  /\ UNCHANGED sessionVars
  /\ UNCHANGED sharedVars

\* executeWithRetry: one pass of the for loop, or the throw after it
Attempt ==
  /\ pc = "attempting"
  /\ IF ~(attempt <= retryConfig.maxRetries)
     THEN /\ callOutcome' = Thrown(IF lastError # Null THEN lastError
                                    ELSE JsError(<< >>, UnknownMessage))
          /\ pc' = "settled"
          /\ UNCHANGED << attempt, attempts, delays, lastError >>
     ELSE LET result == operation(transport[attempts + 1]) IN
          /\ attempts' = attempts + 1
          /\ IF result.returned
             THEN /\ callOutcome' = result
                  /\ pc' = "settled"
                  /\ UNCHANGED << attempt, delays, lastError >>
             ELSE LET apiError == convertError(result.error) IN
                  /\ lastError' = apiError
                  /\ IF ~apiError.retryable \/ attempt = retryConfig.maxRetries
                     THEN /\ callOutcome' = Thrown(apiError)
                          /\ pc' = "settled"
                          /\ UNCHANGED << attempt, delays >>
                     ELSE /\ delays' = Append(delays, BackoffDelay(attempt))
                          /\ attempt' = attempt + 1
                          /\ UNCHANGED << pc, callOutcome >>
  /\ UNCHANGED << transport, iteration, modelCalls, allToolCalls, toolCall,
                  permissionResult, approval, toolResult, recorded, nCorrective,
                  zeroBlockCompletions, exitReason, warned, permissionSettings,
                  storedPermissions, securitySettings, handlerInvoked >>
  /\ UNCHANGED sessionVars
  /\ UNCHANGED sharedVars

(***************************************************************************)
(* ChatEngine: processUserMessage, llmLoop, handleToolCall                 *)
(***************************************************************************)
\* llmLoop: const maxIterations
maxIterations == 50

\* A message of session.messages: its role, what it carries and, for a
\* tool-response, the success, error and output fields of the JSON it wraps.
Message(role, kind, success, error, output) ==
  [ role |-> role, kind |-> kind, success |-> success, error |-> error,
    output |-> output ]

UserInputMessage == Message("user", "input", TRUE, "", "")

AssistantMessage == Message("assistant", "completion", TRUE, "", "")

\* llmLoop: the message recorded with metadata { warning: 'no_tool_call' }
NoToolCallWarning == Message("user", "warning", TRUE, "no_tool_call", "")

ToolResponse(success, error, output) ==
  Message("user", "tool_response", success, error, output)

\* ApprovalManager: type ApprovalChoice
ApprovalChoice == {"allow_once", "allow_always", "deny"}

\* ToolExecutor.parseXmlToolCall on one <tool_call> block of the completion:
\* null for a block the pattern does not match, else the name and parameters.
parseXmlToolCall(block) ==
  IF block.wellFormed
  THEN [ toolName |-> block.toolName, parameters |-> block.parameters ]
  ELSE Null

\* the loop condition off by one
LoopConditionInclusive == iteration <= maxIterations

\* llmLoop: while (iteration < maxIterations)
LoopCondition == iteration < maxIterations

\* the dispatch taking the first block of several
BlockDispatchFirstBlock(n) == IF n >= 1 THEN "single" ELSE "none"

\* llmLoop: the branch taken on allToolCalls.length
BlockDispatch(n) ==
  IF n > 1 THEN "multiple" ELSE IF n = 1 THEN "single" ELSE "none"

\* the break test without the success of the tool
BreaksLoopIgnoresResult(toolExecuted, toolName) == toolName = "respond_to_user"

\* llmLoop: if (toolExecuted && parsed.toolName === 'respond_to_user') break
BreaksLoop(toolExecuted, toolName) ==
  toolExecuted /\ toolName = "respond_to_user"

\* the denial test comparing against a choice the gate never returns
ApprovalDeniedMisspelt(choice) == choice = "denied"

\* handleToolCall: if (approval.choice === 'deny') ... return false
ApprovalDenied(choice) == choice = "deny"

\* llmLoop: if (iteration >= maxIterations) console.log(warning)
MaxIterationsReached(i) == i >= maxIterations

\* PermissionManager.loadSettings: the cache, filled from the configuration
\* on first use
loadSettings == IF permissionSettings = Null THEN storedPermissions ELSE permissionSettings

\* The locals of one loop pass go out of scope at 'continue'
ClearLocals ==
  /\ allToolCalls' = << >>
  /\ toolCall' = Null
  /\ permissionResult' = Null
  /\ approval' = "none"
  /\ toolResult' = Null
  /\ handlerInvoked' = FALSE

\* 'continue': back to the loop condition
Continue ==
  /\ pc' = "loop"
  /\ ClearLocals
  /\ UNCHANGED << exitReason, warned >>

\* 'break' (or the loop condition failing) and the code after the loop;
\* the locals keep the values they had when the loop was left.
LeaveLoop(reason, i) ==
  /\ pc' = "idle"
  /\ exitReason' = reason
  /\ warned' = MaxIterationsReached(i)

\* the catch block going on with the next pass
CatchBreakContinues(i) ==
  /\ pc' = "loop"
  /\ UNCHANGED << exitReason, warned >>

\* llmLoop: catch (error) { console.error(...); break; } and the code after
\* the loop, i being the value of iteration
CatchBreak(i) == LeaveLoop("error", i)

\* ChatEngine.processUserMessage up to the call of llmLoop
ProcessUserMessage ==
  /\ pc = "idle"
  /\ pc' = "loop"
  /\ iteration' = 0
  /\ modelCalls' = 0
  /\ nCorrective' = 0
  /\ zeroBlockCompletions' = 0
  /\ recorded' = << UserInputMessage >>
  /\ exitReason' = "none"
  /\ warned' = FALSE
  /\ ClearLocals
  /\ UNCHANGED << permissionSettings, storedPermissions, securitySettings >>
  /\ UNCHANGED clientVars
  /\ UNCHANGED sessionVars
  /\ UNCHANGED sharedVars

\* llmLoop: iteration++, chatCompletion and the recording of its output.
\* completions is the set of completions the model may return.
LlmCall(completions) ==
  /\ pc = "loop"
  /\ LoopCondition
  /\ iteration' = iteration + 1
  /\ modelCalls' = modelCalls + 1
  /\ \/ \* chatCompletion raises: catch, break
        /\ CatchBreak(iteration + 1)
        /\ recorded' = << >>
        /\ UNCHANGED << allToolCalls, zeroBlockCompletions >>
     \/ \E content \in completions :
          /\ recorded' = << AssistantMessage >>
          /\ allToolCalls' = content
          /\ zeroBlockCompletions' =
               IF Len(content) = 0 THEN zeroBlockCompletions + 1 ELSE zeroBlockCompletions
          /\ pc' = "HasResponse"
          /\ UNCHANGED << exitReason, warned >>
  /\ UNCHANGED << toolCall, permissionResult, approval, toolResult, nCorrective,
                  permissionSettings, storedPermissions, securitySettings,
                  handlerInvoked >>
  /\ UNCHANGED clientVars
  /\ UNCHANGED sessionVars
  /\ UNCHANGED sharedVars

\* llmLoop: the loop condition fails
LoopExit ==
  /\ pc = "loop"
  /\ ~LoopCondition
  /\ LeaveLoop("cap", iteration)
  /\ UNCHANGED << iteration, modelCalls, allToolCalls, toolCall, permissionResult,
                  approval, toolResult, recorded, nCorrective, zeroBlockCompletions,
                  permissionSettings, storedPermissions, securitySettings,
                  handlerInvoked >>
  /\ UNCHANGED clientVars
  /\ UNCHANGED sessionVars
  /\ UNCHANGED sharedVars

\* llmLoop: more than one <tool_call> block
MultipleToolCalls ==
  /\ pc = "HasResponse"
  /\ BlockDispatch(Len(allToolCalls)) = "multiple"
  /\ recorded' = Append(recorded, ToolResponse(FALSE, "multiple_tool_calls", ""))
  /\ Continue
  /\ UNCHANGED << iteration, modelCalls, nCorrective, zeroBlockCompletions,
                  permissionSettings, storedPermissions, securitySettings >>
  /\ UNCHANGED clientVars
  /\ UNCHANGED sessionVars
  /\ UNCHANGED sharedVars

\* the zero-block branch continuing without its corrective message
NoToolCallSilent ==
  /\ pc = "HasResponse"
  /\ BlockDispatch(Len(allToolCalls)) = "none"
  /\ Continue
  /\ UNCHANGED << iteration, modelCalls, recorded, nCorrective, zeroBlockCompletions,
                  permissionSettings, storedPermissions, securitySettings >>
  /\ UNCHANGED clientVars
  /\ UNCHANGED sessionVars
  /\ UNCHANGED sharedVars

\* llmLoop: no <tool_call> block
NoToolCall ==
  /\ pc = "HasResponse"
  /\ BlockDispatch(Len(allToolCalls)) = "none"
  /\ recorded' = Append(recorded, NoToolCallWarning)
  /\ nCorrective' = nCorrective + 1
  /\ Continue
  /\ UNCHANGED << iteration, modelCalls, zeroBlockCompletions,
                  permissionSettings, storedPermissions, securitySettings >>
  /\ UNCHANGED clientVars
  /\ UNCHANGED sessionVars
  /\ UNCHANGED sharedVars

\* llmLoop: exactly one block; parseXmlToolCall and the entry of handleToolCall
SingleToolCall ==
  /\ pc = "HasResponse"
  /\ BlockDispatch(Len(allToolCalls)) = "single"
  /\ LET parsed == parseXmlToolCall(allToolCalls[1]) IN
     IF parsed = Null
     THEN /\ Continue
          /\ UNCHANGED recorded
     ELSE /\ toolCall' = [ toolName |-> parsed.toolName,
                           parameters |-> parsed.parameters,
                           requiresApproval |-> << >> ]
          /\ pc' = "AwaitingPermission"
          /\ UNCHANGED << allToolCalls, permissionResult, approval, toolResult,
                          recorded, exitReason, warned, handlerInvoked >>
  /\ UNCHANGED << iteration, modelCalls, nCorrective, zeroBlockCompletions,
                  permissionSettings, storedPermissions, securitySettings >>
  /\ UNCHANGED clientVars
  /\ UNCHANGED sessionVars
  /\ UNCHANGED sharedVars

\* handleToolCall: checkPermission and the branch on its result
CheckPermission ==
  /\ pc = "AwaitingPermission"
  /\ permissionSettings' = loadSettings
  /\ LET result == checkPermission(toolCall, loadSettings, securitySettings) IN
     IF IsRaised(result)
     THEN /\ LeaveLoop("error", iteration)
          /\ UNCHANGED << allToolCalls, toolCall, permissionResult, approval,
                          toolResult, recorded, handlerInvoked >>
     ELSE IF ~result.allowed
     THEN /\ recorded' = Append(recorded, ToolResponse(FALSE, result.reason, ""))
          /\ Continue
     ELSE /\ permissionResult' = result
          /\ pc' = IF result.requiresApproval THEN "AwaitingApproval" ELSE "Executing"
          /\ UNCHANGED << allToolCalls, toolCall, approval, toolResult, recorded,
                          exitReason, warned, handlerInvoked >>
  /\ UNCHANGED << iteration, modelCalls, nCorrective, zeroBlockCompletions,
                  storedPermissions, securitySettings >>
  /\ UNCHANGED clientVars
  /\ UNCHANGED sessionVars
  /\ UNCHANGED sharedVars

\* the persistence test taking every allowing choice
AllowAlwaysAnyAllow(choice) == choice # "deny"

\* the persistence test that never holds
AllowAlwaysNever(choice) == FALSE

\* handleToolCall: if (approval.choice === 'allow_always')
AllowAlways(choice) == choice = "allow_always"

\* addToPermanentlyAllowed without the push
addToPermanentlyAllowedNoPush(settings, toolName) == settings

\* PermissionManager.addToPermanentlyAllowed: the list after the call
addToPermanentlyAllowed(settings, toolName) ==
  IF listIncludes(settings.permanentlyAllowed, toolName)
  THEN settings
  ELSE [ settings EXCEPT !.permanentlyAllowed = Append(@, toolName) ]

\* handleToolCall: requestApproval and the branch on the human's choice.
\* saveOk is whether ConfigManager.savePermissionSettings succeeds.
RequestApproval ==
  /\ pc = "AwaitingApproval"
  /\ \E choice \in ApprovalChoice, saveOk \in BOOLEAN :
       IF ApprovalDenied(choice)
       THEN /\ recorded' = Append(recorded, ToolResponse(FALSE, "denied_by_user", ""))
            /\ Continue
            /\ UNCHANGED << permissionSettings, storedPermissions >>
       ELSE /\ approval' = choice
            /\ UNCHANGED << allToolCalls, toolCall, permissionResult, toolResult,
                            recorded, handlerInvoked >>
            /\ IF AllowAlways(choice)
               THEN LET added == addToPermanentlyAllowed(permissionSettings, toolCall.toolName) IN
                    \* settings.permanentlyAllowed.push mutates the cached
                    \* object before saveSettings runs
                    /\ permissionSettings' = added
                    /\ IF added = permissionSettings
                       THEN /\ pc' = "Executing"
                            /\ UNCHANGED << storedPermissions, exitReason, warned >>
                       ELSE IF saveOk
                       THEN /\ storedPermissions' = added
                            /\ pc' = "Executing"
                            /\ UNCHANGED << exitReason, warned >>
                       ELSE /\ LeaveLoop("error", iteration)
                            /\ UNCHANGED storedPermissions
               ELSE /\ pc' = "Executing"
                    /\ UNCHANGED << exitReason, warned, permissionSettings,
                                    storedPermissions >>
  /\ UNCHANGED << iteration, modelCalls, nCorrective, zeroBlockCompletions,
                  securitySettings >>
  /\ UNCHANGED clientVars
  /\ UNCHANGED sessionVars
  /\ UNCHANGED sharedVars

\* handleToolCall: executeTool, the recording of its result, and the
\* 'break' test of llmLoop on the value handleToolCall returns
ExecuteTool ==
  /\ pc = "Executing"
  /\ \E outcome \in HandlerOutcomes :
       LET result == executeTool(toolCall, outcome) IN
       IF IsRaised(result)
       THEN /\ LeaveLoop("error", iteration)
            /\ UNCHANGED << allToolCalls, toolCall, permissionResult, approval,
                            toolResult, recorded, handlerInvoked >>
       ELSE LET toolExecuted == result.success IN
            /\ recorded' = Append(recorded, ToolResponse(result.success, result.error,
                                                         result.output))
            /\ IF BreaksLoop(toolExecuted, toolCall.toolName)
               THEN /\ LeaveLoop("respond", iteration)
                    /\ toolResult' = result
                    /\ handlerInvoked' = ExecuteToolRun(toolCall, outcome).invoked
                    /\ UNCHANGED << allToolCalls, toolCall, permissionResult, approval >>
               ELSE Continue
  /\ UNCHANGED << iteration, modelCalls, nCorrective, zeroBlockCompletions,
                  permissionSettings, storedPermissions, securitySettings >>
  /\ UNCHANGED clientVars
  /\ UNCHANGED sessionVars
  /\ UNCHANGED sharedVars

(***************************************************************************)
(* Inputs                                                                  *)
(***************************************************************************)
\* The most <tool_call> blocks a completion of the model holds
MaxBlocks == 2

Hello == Str(<<"h","e","l","l","o">>)

RespondOk == [ toolName |-> "respond_to_user", parameters |-> [ message |-> Hello ] ]

RespondBadType ==
  [ toolName |-> "respond_to_user",
    parameters |-> [ message |-> Hello, type |-> Str(<<"i","n","f","o">>) ] ]

RespondNoMessage == [ toolName |-> "respond_to_user", parameters |-> << >> ]

ExecRmRf ==
  [ toolName |-> "execute_command",
    parameters |-> [ command |-> Str(<<"r","m"," ","-","r","f"," ","/">>) ] ]

ExecNumber ==
  [ toolName |-> "execute_command", parameters |-> [ command |-> Num(<<"1","2","3">>) ] ]

WriteNotes ==
  [ toolName |-> "write_to_file",
    parameters |-> [ path |-> Str(<<"n","o","t","e","s",".","t","x","t">>),
                     content |-> Hello ] ]

UnknownTool == [ toolName |-> "frobnicate", parameters |-> << >> ]

\* The invocations the model emits in the agent loop
LoopInvocations ==
  { RespondOk, RespondBadType, RespondNoMessage, ExecRmRf, ExecNumber, WriteNotes,
    UnknownTool }

WellFormedBlock(invocation) ==
  [ wellFormed |-> TRUE, toolName |-> invocation.toolName,
    parameters |-> invocation.parameters ]

MalformedBlock == [ wellFormed |-> FALSE, toolName |-> "", parameters |-> << >> ]

\* Sequences of length n over the set S
RECURSIVE SeqsOfLen(_, _)
SeqsOfLen(S, n) ==
  IF n = 0 THEN { << >> }
  ELSE { Append(q, x) : q \in SeqsOfLen(S, n - 1), x \in S }

\* The completions of the model, as the blocks matchAll finds in them: none,
\* one (well-formed or not), or several
Completions ==
  { << >> }
  \cup { << MalformedBlock >> }
  \cup { << WellFormedBlock(i) >> : i \in LoopInvocations }
  \cup UNION { SeqsOfLen({ WellFormedBlock(RespondOk), WellFormedBlock(WriteNotes) }, n) :
               n \in 2..MaxBlocks }

PermissionLevels == {"strict", "normal", "permissive"}

\* ConfigManager.getPermissionSettings: defaultSettings, at some level
DefaultPermissions(level) ==
  [ permanentlyAllowed |-> << >>, autoReject |-> << >>, permissionLevel |-> level ]

\* ConfigManager.getSecuritySettings: defaultSettings
DefaultSecurity ==
  [ enableBlocklist |-> TRUE, customBlocklist |-> << >>,
    riskLevels |-> DefaultRiskLevels, showSecurityWarnings |-> TRUE ]

(***************************************************************************)
(* The session                                                             *)
(***************************************************************************)
Init ==
  /\ pc = "idle"
  /\ iteration = 0
  /\ modelCalls = 0
  /\ allToolCalls = << >>
  /\ toolCall = Null
  /\ permissionResult = Null
  /\ approval = "none"
  /\ toolResult = Null
  /\ recorded = << >>
  /\ nCorrective = 0
  /\ zeroBlockCompletions = 0
  /\ exitReason = "none"
  /\ warned = FALSE
  /\ permissionSettings = Null
  /\ storedPermissions \in { DefaultPermissions(level) : level \in PermissionLevels }
  /\ securitySettings = DefaultSecurity
  /\ handlerInvoked = FALSE
  /\ ClientIdle
  /\ SessionIdle
  /\ SharedIdle

Next ==
  \/ ProcessUserMessage
  \/ LlmCall(Completions)
  \/ LoopExit
  \/ MultipleToolCalls
  \/ NoToolCall
  \/ SingleToolCall
  \/ CheckPermission
  \/ RequestApproval
  \/ ExecuteTool

Spec == Init /\ [][Next]_vars

(***************************************************************************)
(* The permission policy as a function of its inputs                       *)
(***************************************************************************)
ExecUpperRmRf ==
  [ toolName |-> "execute_command",
    parameters |-> [ command |-> Str(<<"R","M"," ","-","R","F"," ","/">>) ] ]

ExecLs ==
  [ toolName |-> "execute_command", parameters |-> [ command |-> Str(<<"l","s">>) ] ]

ExecChown ==
  [ toolName |-> "execute_command",
    parameters |-> [ command |-> Str(<<"c","h","o","w","n"," ","m","e"," ","f">>) ] ]

ExecGitPush ==
  [ toolName |-> "execute_command",
    parameters |-> [ command |-> Str(<<"g","i","t"," ","p","u","s","h">>) ] ]

ExecNoCommand == [ toolName |-> "execute_command", parameters |-> << >> ]

ExecSudoChown ==
  [ toolName |-> "execute_command",
    parameters |-> [ command |-> Str(<<"S","u","d","o"," ","c","h","o","w","n"," ","m","e">>) ] ]

ExecTop ==
  [ toolName |-> "execute_command", parameters |-> [ command |-> Str(<<"t","o","p">>) ] ]

EtcPasswd == Str(<<"/","e","t","c","/","p","a","s","s","w","d">>)

WritePasswd ==
  [ toolName |-> "write_to_file", parameters |-> [ path |-> EtcPasswd, content |-> Hello ] ]

WriteNoPath == [ toolName |-> "write_to_file", parameters |-> [ content |-> Hello ] ]

WriteNumberPath ==
  [ toolName |-> "write_to_file",
    parameters |-> [ path |-> Num(<<"1","2","3">>), content |-> Hello ] ]

MkdirDocs ==
  [ toolName |-> "create_directory",
    parameters |-> [ path |-> Str(<<"d","o","c","s">>) ] ]

MkdirBoot ==
  [ toolName |-> "create_directory",
    parameters |-> [ path |-> Str(<<"\\","B","o","o","t","\\","x">>) ] ]

ReadNotes ==
  [ toolName |-> "read_file",
    parameters |-> [ path |-> Str(<<"n","o","t","e","s",".","t","x","t">>) ] ]

ListDocs ==
  [ toolName |-> "list_directory",
    parameters |-> [ path |-> Str(<<"d","o","c","s">>) ] ]

\* The invocations checkPermission is applied to
PolicyInvocations ==
  LoopInvocations \cup
  { ExecUpperRmRf, ExecLs, ExecChown, ExecGitPush, ExecNoCommand, ExecSudoChown,
    ExecTop, WritePasswd,
    WriteNoPath, WriteNumberPath, MkdirDocs, MkdirBoot, ReadNotes, ListDocs,
    UnknownTool }

\* ToolCallRequest.requiresApproval: undefined, true or false
ApprovalFlags == { << >>, << TRUE >>, << FALSE >> }

PolicyCalls ==
  { [ toolName |-> i.toolName, parameters |-> i.parameters, requiresApproval |-> f ] :
      i \in PolicyInvocations, f \in ApprovalFlags }

AllowLists ==
  { << >>,
    << "write_to_file" >>,
    << "execute_command" >>,
    << "execute_command", "write_to_file", "create_directory" >>,
    << "respond_to_user", "list_directory", "frobnicate" >>,
    << "read_file" >> }

\* PermissionSettings.autoReject as permissions.toml may hold it
RejectLists == { << >>, << "write_to_file", "execute_command", "list_directory" >> }

PolicySettings ==
  { [ permanentlyAllowed |-> a, autoReject |-> r, permissionLevel |-> l ] :
      a \in AllowLists, r \in RejectLists, l \in PermissionLevels }

SecurityStates ==
  { [ enableBlocklist |-> e, customBlocklist |-> c,
      riskLevels |-> DefaultRiskLevels, showSecurityWarnings |-> w ] :
      e \in BOOLEAN,
      c \in { << >>, << <<"g","i","t"," ","p","u","s","h">> >>, << <<"c","h","o","w","n">> >> },
      w \in BOOLEAN }

PolicyInit ==
  /\ pc = "policy"
  /\ iteration = 0
  /\ modelCalls = 0
  /\ allToolCalls = << >>
  /\ toolCall \in PolicyCalls
  /\ permissionResult = Null
  /\ approval = "none"
  /\ toolResult = Null
  /\ recorded = << >>
  /\ nCorrective = 0
  /\ zeroBlockCompletions = 0
  /\ exitReason = "none"
  /\ warned = FALSE
  /\ permissionSettings = Null
  /\ storedPermissions \in PolicySettings
  /\ securitySettings \in SecurityStates
  /\ handlerInvoked = FALSE
  /\ ClientIdle
  /\ SessionIdle
  /\ SharedIdle

\* PermissionManager.checkPermission applied to the call
ApplyCheckPermission ==
  /\ pc = "policy"
  /\ permissionSettings' = loadSettings
  /\ permissionResult' = checkPermission(toolCall, loadSettings, securitySettings)
  /\ pc' = "decided"
  /\ UNCHANGED << iteration, modelCalls, allToolCalls, toolCall, approval, toolResult,
                  recorded, nCorrective, zeroBlockCompletions, exitReason, warned,
                  storedPermissions, securitySettings, handlerInvoked >>
  /\ UNCHANGED clientVars
  /\ UNCHANGED sessionVars
  /\ UNCHANGED sharedVars

PolicyNext == ApplyCheckPermission

PolicySpec == PolicyInit /\ [][PolicyNext]_vars

(***************************************************************************)
(* One chatCompletion call as a function of what the transport does        *)
(***************************************************************************)
Ok == Resolves(TRUE, <<"o","k">>)

EmptyContent == Resolves(TRUE, << >>)

WhitespaceContent == Resolves(TRUE, <<" ","\n">>)

NoChoice == Resolves(FALSE, << >>)

HttpError(status) == Rejects(JsError(<< status >>, <<"h","t","t","p">>))

FetchFailed ==
  Rejects(JsError(<< >>, <<"f","e","t","c","h"," ","f","a","i","l","e","d">>))

OtherFailure == Rejects(JsError(<< >>, <<"b","o","o","m">>))

ThrownString == Rejects(NonError)

\* What the transport may do at one attempt
Responses ==
  { Ok, EmptyContent, WhitespaceContent, NoChoice, FetchFailed, OtherFailure,
    ThrownString }
  \cup { HttpError(status) : status \in {429, 401, 403, 500, 503, 400} }

\* One response for each attempt executeWithRetry can make
Scripts == SeqsOfLen(Responses, retryConfig.maxRetries + 1)

RetryInit ==
  /\ pc = "client"
  /\ iteration = 0
  /\ modelCalls = 0
  /\ allToolCalls = << >>
  /\ toolCall = Null
  /\ permissionResult = Null
  /\ approval = "none"
  /\ toolResult = Null
  /\ recorded = << >>
  /\ nCorrective = 0
  /\ zeroBlockCompletions = 0
  /\ exitReason = "none"
  /\ warned = FALSE
  /\ permissionSettings = Null
  /\ storedPermissions = DefaultPermissions("strict")
  /\ securitySettings = DefaultSecurity
  /\ handlerInvoked = FALSE
  /\ ClientIdle
  /\ SessionIdle
  /\ SharedIdle

RetryNext ==
  \/ ChatCompletion(Scripts)
  \/ Attempt

RetrySpec == RetryInit /\ [][RetryNext]_vars

(***************************************************************************)
(* executeTool as a function of the call and of what the handler does      *)
(***************************************************************************)
NotesPath == Str(<<"n","o","t","e","s",".","t","x","t">>)

WriteNullContent ==
  [ toolName |-> "write_to_file",
    parameters |-> [ path |-> NotesPath, content |-> NullValue ] ]

RespondNullMessage ==
  [ toolName |-> "respond_to_user", parameters |-> [ message |-> NullValue ] ]

\* An extra parameter, and the optional ones left out
ReadNotesVerbose ==
  [ toolName |-> "read_file",
    parameters |-> [ path |-> NotesPath, verbose |-> Bool(<<"t","r","u","e">>) ] ]

FindFiles == [ toolName |-> "find_files_by_name", parameters |-> << >> ]

SearchNoText == [ toolName |-> "search_content_in_files", parameters |-> << >> ]

\* Calls whose parameters are null or undefined
NullParameterCalls ==
  { [ toolName |-> name, parameters |-> Null ] :
      name \in {"read_file", "find_files_by_name", "respond_to_user", "frobnicate"} }

ExecutorInvocations ==
  PolicyInvocations
  \cup { WriteNullContent, RespondNullMessage, ReadNotesVerbose, FindFiles, SearchNoText }
  \cup NullParameterCalls

ExecutorCalls ==
  { [ toolName |-> i.toolName, parameters |-> i.parameters, requiresApproval |-> f ] :
      i \in ExecutorInvocations, f \in ApprovalFlags }

ExecutorInit ==
  /\ pc = "executor"
  /\ iteration = 0
  /\ modelCalls = 0
  /\ allToolCalls = << >>
  /\ toolCall \in ExecutorCalls
  /\ permissionResult = Null
  /\ approval = "none"
  /\ toolResult = Null
  /\ recorded = << >>
  /\ nCorrective = 0
  /\ zeroBlockCompletions = 0
  /\ exitReason = "none"
  /\ warned = FALSE
  /\ permissionSettings = Null
  /\ storedPermissions = DefaultPermissions("strict")
  /\ securitySettings = DefaultSecurity
  /\ handlerInvoked = FALSE
  /\ ClientIdle
  /\ SessionIdle
  /\ SharedIdle

\* ToolExecutor.executeTool applied to the call
ApplyExecuteTool ==
  /\ pc = "executor"
  /\ \E outcome \in HandlerOutcomes :
       /\ toolResult' = executeTool(toolCall, outcome)
       /\ handlerInvoked' = ExecuteToolRun(toolCall, outcome).invoked
  /\ pc' = "executed"
  /\ UNCHANGED << iteration, modelCalls, allToolCalls, toolCall, permissionResult,
                  approval, recorded, nCorrective, zeroBlockCompletions, exitReason,
                  warned, permissionSettings, storedPermissions, securitySettings >>
  /\ UNCHANGED clientVars
  /\ UNCHANGED sessionVars
  /\ UNCHANGED sharedVars

ExecutorNext == ApplyExecuteTool

ExecutorSpec == ExecutorInit /\ [][ExecutorNext]_vars

(***************************************************************************)
(* Properties of chatCompletion (RetrySpec)                                *)
(***************************************************************************)
HasStatus(response, statuses) ==
  /\ ~response.resolves
  /\ response.error.instanceOfError
  /\ response.error.status # << >>
  /\ response.error.status[1] \in statuses

BlankCompletion(response) ==
  response.resolves /\ response.choice /\ IsBlank(response.content)

\* A retryable transport failure: HTTP 429, HTTP >= 500, a network failure
\* or a blank completion
RetryableFailure(response) ==
  \/ HasStatus(response, {429} \cup 500..599)
  \/ response = FetchFailed
  \/ BlankCompletion(response)

Succeeds(response) ==
  response.resolves /\ response.choice /\ ~IsBlank(response.content)

\* The number of retryable failures the script begins with
LeadingFailures(script) ==
  LET prefixes == { n \in 0..Len(script) : \A k \in 1..n : RetryableFailure(script[k]) }
  IN CHOOSE n \in prefixes : \A m \in prefixes : m <= n

Min(a, b) == IF a < b THEN a ELSE b

\* C11: after N consecutive retryable failures followed by a success (or
\* filling every attempt), chatCompletion has retried min(N, 3) times, so
\* made min(N, 3) + 1 attempts, and has waited min(1000 * 2^attempt, 16000)
\* ms after attempt number attempt: 1000, 2000, 4000.
C11_RetriesWithBackoff ==
  pc = "settled" =>
    LET N == LeadingFailures(transport)
        retries == Min(N, 3)
    IN (N = Len(transport) \/ Succeeds(transport[N + 1])) =>
         /\ attempts = retries + 1
         /\ delays = [ i \in 1..retries |-> Min(1000 * (2 ^ (i - 1)), 16000) ]

\* C12: after an attempt fails with HTTP 401 or 403 there is no further
\* attempt and no backoff; the call raises an error classified auth with
\* retryable=false.
C12_AuthFailsFast ==
  (pc = "settled" /\ \E k \in 1..attempts : HasStatus(transport[k], {401, 403})) =>
    /\ HasStatus(transport[attempts], {401, 403})
    /\ Len(delays) = attempts - 1
    /\ ~callOutcome.returned
    /\ callOutcome.error.type = "auth"
    /\ ~callOutcome.error.retryable

\* C13: when every attempt fails with a retryable error, the call gives up
\* after the 4th attempt and raises the classified error of that attempt,
\* its type (rate_limit, server or network), message and retryable=true kept.
C13_ExhaustionRaisesLastError ==
  (pc = "settled" /\ \A k \in 1..Len(transport) : RetryableFailure(transport[k])) =>
    /\ attempts = 4
    /\ ~callOutcome.returned
    /\ callOutcome.error = operation(transport[4]).error
    /\ callOutcome.error.type \in {"rate_limit", "server", "network"}
    /\ callOutcome.error.retryable

\* C14: a blank completion is never returned; it is retried with backoff,
\* up to the retry limit, as a failure with HTTP >= 500 is.
C14_BlankCompletionRetried ==
  pc = "settled" =>
    /\ callOutcome.returned => ~IsBlank(callOutcome.content)
    /\ \A k \in 1..attempts :
         (BlankCompletion(transport[k]) /\ k <= 3) =>
           /\ attempts > k
           /\ Len(delays) >= k
           /\ delays[k] = Min(1000 * (2 ^ (k - 1)), 16000)

(***************************************************************************)
(* Properties of the permission policy (PolicySpec)                        *)
(***************************************************************************)
\* The security verdict of the call under decision
SecurityVerdict == checkTool(toolCall.toolName, toolCall.parameters, securitySettings)

SecurityAllows == ~IsRaised(SecurityVerdict) /\ SecurityVerdict.allowed

SecurityDenies == ~IsRaised(SecurityVerdict) /\ ~SecurityVerdict.allowed

PermanentlyAllowed == listIncludes(storedPermissions.permanentlyAllowed, toolCall.toolName)

\* The approval requirement the permission level alone gives a risk level
LevelRequiresApproval(level, riskLevel) ==
  \/ level = "strict"
  \/ level = "normal" /\ riskLevel \in {"medium", "high"}
  \/ level = "permissive" /\ riskLevel = "high"

C4_DangerousWriteAlwaysDenied ==
  (/\ pc = "decided"
   /\ toolCall.toolName = "write_to_file"
   /\ HasParameter(toolCall.parameters, "path")
   /\ toolCall.parameters.path = EtcPasswd) =>
    /\ ~IsRaised(permissionResult)
    /\ ~permissionResult.allowed
    /\ permissionResult.securityResult.riskLevel = "high"

\* C4 witness: the write is denied although write_to_file is permanently
\* allowed, the level is permissive, blocklisting is off and the flag is false
C4_Witness ==
  /\ pc = "decided"
  /\ toolCall = [ toolName |-> "write_to_file",
                  parameters |-> WritePasswd.parameters,
                  requiresApproval |-> << FALSE >> ]
  /\ PermanentlyAllowed
  /\ storedPermissions.permissionLevel = "permissive"
  /\ ~securitySettings.enableBlocklist
  /\ ~permissionResult.allowed
  /\ permissionResult.securityResult.riskLevel = "high"

\* C5: for a call the security check allows, of a tool not permanently
\* allowed, with no approval flag: strict always requires approval, permissive
\* requires it exactly when the risk is high, normal exactly when the risk is
\* medium or high.
C5_LevelDecidesApproval ==
  (/\ pc = "decided"
   /\ SecurityAllows
   /\ ~PermanentlyAllowed
   /\ toolCall.requiresApproval = << >>) =>
    /\ ~IsRaised(permissionResult)
    /\ permissionResult.allowed
    /\ permissionResult.requiresApproval =
         LevelRequiresApproval(storedPermissions.permissionLevel,
                               permissionResult.securityResult.riskLevel)

\* C5 witness: a medium-risk command at the permissive level needs no approval
C5_Witness ==
  /\ pc = "decided"
  /\ SecurityAllows
  /\ ~PermanentlyAllowed
  /\ toolCall.requiresApproval = << >>
  /\ storedPermissions.permissionLevel = "permissive"
  /\ permissionResult.securityResult.riskLevel = "medium"
  /\ permissionResult.allowed
  /\ ~permissionResult.requiresApproval

\* C6: for a call the security check allows, of a tool not permanently
\* allowed, an explicit approval flag decides: requiresApproval equals the
\* flag at every permission level and every risk level.
C6_ExplicitFlagDecides ==
  (/\ pc = "decided"
   /\ SecurityAllows
   /\ ~PermanentlyAllowed
   /\ toolCall.requiresApproval # << >>) =>
    /\ ~IsRaised(permissionResult)
    /\ permissionResult.allowed
    /\ permissionResult.requiresApproval = toolCall.requiresApproval[1]

\* C6 witness: the flag false waives approval at the strict level
C6_Witness ==
  /\ pc = "decided"
  /\ SecurityAllows
  /\ ~PermanentlyAllowed
  /\ toolCall.requiresApproval = << FALSE >>
  /\ storedPermissions.permissionLevel = "strict"
  /\ permissionResult.securityResult.riskLevel = "medium"
  /\ permissionResult.allowed
  /\ ~permissionResult.requiresApproval

(***************************************************************************)
(* Properties of the agent loop (Spec)                                     *)
(***************************************************************************)
InHandleToolCall == pc \in {"AwaitingPermission", "AwaitingApproval", "Executing"}

Last(q) == q[Len(q)]

\* The tool-response a successful respond_to_user leaves in the session
RespondedMessage == ToolResponse(TRUE, "", "response_shown")

\* C1: executeTool runs for an invocation only after checkPermission returned
\* allowed=true for that invocation and, when it returned
\* requiresApproval=true, only after the approval gate returned allow_once or
\* allow_always for it; otherwise no handler runs in the pass.
C1_ExecuteOnlyWhenPermitted ==
  pc = "Executing" =>
    /\ permissionResult # Null
    /\ permissionResult.allowed
    /\ SecurityAllows
    /\ permissionResult.securityResult = SecurityVerdict
    /\ permissionResult.requiresApproval => approval \in {"allow_once", "allow_always"}
    /\ ~permissionResult.requiresApproval => approval = "none"

\* C1 witness: a write that needed approval is about to run after allow_once
C1_Witness ==
  /\ pc = "Executing"
  /\ toolCall.toolName = "write_to_file"
  /\ permissionResult.allowed
  /\ permissionResult.requiresApproval
  /\ approval = "allow_once"

TurnMeasure ==
  IF pc = "idle" THEN -1
  ELSE (maxIterations - iteration) * 5
       + CASE pc = "loop" -> 0
           [] pc = "Executing" -> 1
           [] pc = "AwaitingApproval" -> 2
           [] pc = "AwaitingPermission" -> 3
           [] pc = "HasResponse" -> 4

\* C7: a turn performs at most 50 model calls and then ends. Every pass,
\* whatever happens in it, counts as one iteration: the loop counter equals
\* the number of model calls, every step of a turn brings the turn nearer to
\* its end, and the loop is left by its failing condition only after exactly
\* 50 model calls, with the max-iterations warning.
C7_AtMostFiftyModelCalls ==
  [][ /\ modelCalls' = iteration'
      /\ iteration' <= maxIterations
      /\ modelCalls' <= 50
      /\ (pc' \notin {"idle", "loop"}) => (iteration' >= 1 /\ exitReason' = "none")
      /\ (pc' = "idle" /\ exitReason' = "cap") => (modelCalls' = 50 /\ warned')
      /\ (pc # "idle") => (TurnMeasure' < TurnMeasure /\ TurnMeasure' >= -1)
      /\ (pc = "loop" /\ pc' = "HasResponse") => modelCalls' = modelCalls + 1
      /\ (pc # "loop" /\ pc # "idle") => modelCalls' = modelCalls ]_vars

\* C7 witness: a turn of 25 zero-block completions and 25 other passes that
\* never answered has ended at the cap
C7_Witness ==
  /\ pc = "idle"
  /\ exitReason = "cap"
  /\ modelCalls = 50
  /\ nCorrective = 25
  /\ warned

RegisteredTools ==
  { "read_file", "write_to_file", "create_directory", "find_files_by_name",
    "search_content_in_files", "list_directory", "execute_command", "read_files",
    "respond_to_user" }

\* The parameters are an object in which the key has a value other than
\* null and undefined
PresentAndNotNull(parameters, key) ==
  /\ parameters # Null
  /\ key \in DOMAIN parameters
  /\ parameters[key] # NullValue

RequiredParametersGiven ==
  \A key \in DefaultTools[toolCall.toolName] :
     PresentAndNotNull(toolCall.parameters, key)

\* The handler's own results
HandlerResults ==
  { ToolResult(TRUE, "", "handler_output"), ToolResult(FALSE, "handler_error", ""),
    ToolResult(FALSE, "execution_error", ""), ToolResult(TRUE, "", "response_shown"),
    ToolResult(FALSE, "invalid_message_type", "") }

\* C15: executeTool calls a handler only for a registered tool whose required
\* parameters are all present and neither null nor undefined (optional and
\* extra parameters are not looked at); for an unknown name or a failed
\* validation it returns success=false with an error, calling no handler.
C15_HandlerOnlyForValidCalls ==
  pc = "executed" =>
    /\ handlerInvoked =>
         (toolCall.toolName \in RegisteredTools /\ RequiredParametersGiven)
    /\ handlerInvoked <=> (toolResult \in HandlerResults)
    /\ (toolCall.toolName \notin RegisteredTools) =>
         (~handlerInvoked /\ toolResult = ToolResult(FALSE, "unknown_tool", ""))
    /\ (/\ toolCall.toolName \in RegisteredTools
        /\ toolCall.parameters # Null
        /\ ~RequiredParametersGiven) =>
         (~handlerInvoked /\ toolResult = ToolResult(FALSE, "invalid_parameters", ""))

\* C15 witness: read_file ran with an extra parameter and no optional one
C15_Witness ==
  /\ pc = "executed"
  /\ toolCall.toolName = "read_file"
  /\ toolCall.parameters = ReadNotesVerbose.parameters
  /\ handlerInvoked
  /\ toolResult.success

\* C16: no exception leaves executeTool: whatever a registered tool throws
\* while its parameters are validated or while its handler runs, the result
\* is a ToolResult with success=false carrying the error.
C16_NoExceptionEscapes ==
  pc = "executed" =>
    /\ ~IsRaised(toolResult)
    /\ toolResult.success \in BOOLEAN
    /\ (~toolResult.success) => toolResult.error # ""

(***************************************************************************)
(* Properties of the approval outcomes (Spec)                              *)
(***************************************************************************)
CachedAllowed(settings, toolName) ==
  settings # Null /\ listIncludes(settings.permanentlyAllowed, toolName)

\* C17: after allow_always for a tool, the tool is on the permanently-allowed
\* list for the rest of the session, and every later permission check of an
\* invocation of it that the security check allows goes to execution with
\* requiresApproval=false: the approval gate is reached only for tools that
\* are not on the list.
C17_AllowAlwaysSkipsLaterPrompts ==
  [][ /\ (pc = "AwaitingApproval" /\ approval' = "allow_always") =>
           CachedAllowed(permissionSettings', toolCall.toolName)
      /\ \A name \in DOMAIN DefaultTools :
           CachedAllowed(permissionSettings, name) =>
             CachedAllowed(permissionSettings', name)
      /\ (/\ pc = "AwaitingPermission"
          /\ CachedAllowed(permissionSettings, toolCall.toolName)
          /\ SecurityAllows) =>
           /\ pc' = "Executing"
           /\ ~permissionResult'.requiresApproval
           /\ approval' = "none"
      /\ (pc' = "AwaitingApproval") =>
           ~CachedAllowed(permissionSettings', toolCall'.toolName) ]_vars

\* C17 witness: under normal, write_to_file is about to run without having
\* been prompted for, because an earlier allow_always put it on the list
C17_Witness ==
  /\ pc = "Executing"
  /\ toolCall.toolName = "write_to_file"
  /\ approval = "none"
  /\ permissionSettings.permissionLevel = "normal"
  /\ CachedAllowed(permissionSettings, "write_to_file")
  /\ ~permissionResult.requiresApproval

\* C18: allow_once and deny leave the policy state as it was (cache,
\* persisted settings, level): deny appends one failed tool-response and
\* runs nothing, allow_once goes to one execution, and the same invocation
\* checked again still requires approval.
C18_OnceAndDenyLeavePolicy ==
  [][ /\ (pc = "AwaitingApproval" /\ (pc' = "loop" \/ approval' = "allow_once")) =>
           /\ UNCHANGED << permissionSettings, storedPermissions, securitySettings >>
           /\ (pc' = "loop") =>
                /\ recorded' = Append(recorded, ToolResponse(FALSE, "denied_by_user", ""))
                /\ toolResult' = Null
                /\ ~handlerInvoked'
           /\ (approval' = "allow_once") =>
                /\ pc' = "Executing"
                /\ UNCHANGED << toolCall, recorded >>
           /\ checkPermission(toolCall, loadSettings', securitySettings').requiresApproval
      /\ (pc = "Executing" /\ approval = "allow_once") =>
           (pc' \in {"loop", "idle"} /\ Len(recorded') <= Len(recorded) + 1) ]_vars

\* C18 witness: allow_once was answered for write_to_file, which is about to
\* run while the lists are still empty and the same call still needs approval
C18_Witness ==
  /\ pc = "Executing"
  /\ approval = "allow_once"
  /\ toolCall.toolName = "write_to_file"
  /\ permissionSettings.permanentlyAllowed = << >>
  /\ storedPermissions.permanentlyAllowed = << >>
  /\ checkPermission(toolCall, loadSettings, securitySettings).requiresApproval

\* C19: the approval gate offers four outcomes: allow_once, allow_always,
\* deny and deny_always (the last one persisting the tool name to a reject
\* record).
C19_FourApprovalOutcomes ==
  pc = "AwaitingApproval" =>
    ApprovalChoice = {"allow_once", "allow_always", "deny", "deny_always"}

(***************************************************************************)
(* Properties of the command check (PolicySpec)                            *)
(***************************************************************************)
\* The call under decision is execute_command with a non-empty string command
ChecksCommand ==
  /\ toolCall.toolName = "execute_command"
  /\ HasParameter(toolCall.parameters, "command")
  /\ toolCall.parameters["command"].t = "string"
  /\ toolCall.parameters["command"].s # << >>

\* Some pattern of the list occurs in the command, letter case aside
CommandMatches(patterns) ==
  \E i \in 1..Len(patterns) :
    includes(toLowerCase(toolCall.parameters["command"].s), toLowerCase(patterns[i]))

\* C20: the command check decides by the first applicable rule: blocklist
\* disabled gives allowed/low; a high-risk match gives denied/high; a custom
\* blocklist match gives denied/high; a medium match gives allowed/medium with
\* a warning exactly when warnings are enabled; anything else allowed/low.  A
\* command matching a deny list and the medium or low list is denied.
C20_FirstApplicableRule ==
  (pc = "decided" /\ ChecksCommand) =>
    /\ ~IsRaised(permissionResult)
    /\ LET result == permissionResult.securityResult
           levels == securitySettings.riskLevels
       IN IF ~securitySettings.enableBlocklist
          THEN result.allowed /\ result.riskLevel = "low" /\ ~result.warning
          ELSE IF CommandMatches(levels.high)
          THEN /\ ~result.allowed /\ result.riskLevel = "high"
               /\ result.blockedReason = "high_risk_command"
          ELSE IF CommandMatches(securitySettings.customBlocklist)
          THEN /\ ~result.allowed /\ result.riskLevel = "high"
               /\ result.blockedReason = "custom_blocklist"
          ELSE IF CommandMatches(levels.medium)
          THEN /\ result.allowed /\ result.riskLevel = "medium"
               /\ result.warning = securitySettings.showSecurityWarnings
          ELSE result.allowed /\ result.riskLevel = "low" /\ ~result.warning

\* C20 witness: a command on the custom blocklist and on the medium list,
\* not on the high list, is denied with high risk
C20_Witness ==
  /\ pc = "decided"
  /\ ChecksCommand
  /\ securitySettings.enableBlocklist
  /\ ~CommandMatches(securitySettings.riskLevels.high)
  /\ CommandMatches(securitySettings.customBlocklist)
  /\ CommandMatches(securitySettings.riskLevels.medium)
  /\ ~permissionResult.allowed
  /\ permissionResult.securityResult.riskLevel = "high"

(***************************************************************************)
(* ToolExecutor: the tool-call codec on the text of a block                *)
(***************************************************************************)
Digits == {"0","1","2","3","4","5","6","7","8","9"}

\* \w of the patterns
WordCharacters ==
  { LowerCase[i] : i \in 1..Len(LowerCase) } \cup
  { UpperCase[i] : i \in 1..Len(UpperCase) } \cup Digits \cup {"_"}

\* \s of the patterns and of String.prototype.trim
WhiteSpace == {" ", "\n", "\t", "\r"}

Least(S) == CHOOSE x \in S : \A y \in S : x <= y

Greatest(S) == CHOOSE x \in S : \A y \in S : x >= y

\* the literal pat occurs in text at index i
matchesAt(text, i, pat) ==
  /\ i >= 1
  /\ i + Len(pat) - 1 <= Len(text)
  /\ \A j \in 1..Len(pat) : text[i + j - 1] = pat[j]

\* a greedy run of characters of S from index i: the first index after it
RunEnd(text, i, S) ==
  Least({ k \in i..(Len(text) + 1) :
            /\ k = Len(text) + 1 \/ text[k] \notin S
            /\ \A j \in i..(k - 1) : text[j] \in S })

OpenTag(name) == <<"<">> \o name \o <<">">>

CloseTag(name) == <<"<","/">> \o name \o <<">">>

ToolCallTag == <<"t","o","o","l","_","c","a","l","l">>

\* <(\w+)> at index i: the index after the '>' of the tag, 0 when there is none
tagEndAt(text, i) ==
  IF i >= 1 /\ i <= Len(text) /\ text[i] = "<"
  THEN LET e == RunEnd(text, i + 1, WordCharacters)
       IN IF e > i + 1 /\ e <= Len(text) /\ text[e] = ">" THEN e + 1 ELSE 0
  ELSE 0

\* the group (\w+) of the tag at index i
tagNameAt(text, i) == SubSeq(text, i + 1, tagEndAt(text, i) - 2)

\* /<tool_call>\s*<(\w+)>(.*?)<\/\1>\s*<\/tool_call>/s tried at index i:
\* the indexes at which <\/\1>\s*<\/tool_call> can follow the group (.*?)
toolCallCloses(text, i) ==
  IF ~matchesAt(text, i, OpenTag(ToolCallTag)) THEN {}
  ELSE LET b == RunEnd(text, i + Len(OpenTag(ToolCallTag)), WhiteSpace)
           e == tagEndAt(text, b)
       IN IF e = 0 THEN {}
          ELSE LET name == tagNameAt(text, b)
               IN { j \in e..Len(text) :
                      /\ matchesAt(text, j, CloseTag(name))
                      /\ matchesAt(text,
                                   RunEnd(text, j + Len(CloseTag(name)), WhiteSpace),
                                   CloseTag(ToolCallTag)) }

\* xmlContent.match(/<tool_call>\s*<(\w+)>(.*?)<\/\1>\s*<\/tool_call>/s):
\* the leftmost match, its group (.*?) the shortest; Null for no match
toolCallMatch(xmlContent) ==
  LET starts == { i \in 1..Len(xmlContent) : toolCallCloses(xmlContent, i) # {} }
  IN IF starts = {} THEN Null
     ELSE LET i == Least(starts)
              b == RunEnd(xmlContent, i + Len(OpenTag(ToolCallTag)), WhiteSpace)
              j == Least(toolCallCloses(xmlContent, i))
          IN [ toolName |-> tagNameAt(xmlContent, b),
               parametersXml |-> SubSeq(xmlContent, tagEndAt(xmlContent, b), j - 1) ]

\* the tag at index i of xml opens a match of /<(\w+)>(.*?)<\/\1>/s, the
\* tag being any tag (only = << >>) or the tag named only
OpensElement(xml, i, only) ==
  /\ tagEndAt(xml, i) # 0
  /\ only = << >> \/ tagNameAt(xml, i) = only
  /\ \E j \in tagEndAt(xml, i)..Len(xml) : matchesAt(xml, j, CloseTag(tagNameAt(xml, i)))

\* xml.matchAll(/<(\w+)>(.*?)<\/\1>/gs) from index p on: the successive
\* matches, each as its two groups
RECURSIVE matchAllElements(_, _, _)
matchAllElements(xml, p, only) ==
  LET starts == { i \in p..Len(xml) : OpensElement(xml, i, only) }
  IN IF starts = {} THEN << >>
     ELSE LET i == Least(starts)
              e == tagEndAt(xml, i)
              name == tagNameAt(xml, i)
              j == Least({ k \in e..Len(xml) : matchesAt(xml, k, CloseTag(name)) })
          IN << [ name |-> name, raw |-> SubSeq(xml, e, j - 1) ] >>
             \o matchAllElements(xml, j + Len(CloseTag(name)), only)

\* String.prototype.trim
trim(s) ==
  LET kept == { i \in 1..Len(s) : s[i] \notin WhiteSpace }
  IN IF kept = {} THEN << >> ELSE SubSeq(s, Least(kept), Greatest(kept))

\* value.replace(/\\n/g, '\n').replace(/\\t/g, '\t')
RECURSIVE unescape(_)
unescape(s) ==
  IF Len(s) < 2 THEN s
  ELSE IF s[1] = "\\" /\ s[2] = "n" THEN <<"\n">> \o unescape(SubSeq(s, 3, Len(s)))
  ELSE IF s[1] = "\\" /\ s[2] = "t" THEN <<"\t">> \o unescape(SubSeq(s, 3, Len(s)))
  ELSE << s[1] >> \o unescape(SubSeq(s, 2, Len(s)))

IsDigits(s) == s # << >> /\ \A i \in 1..Len(s) : s[i] \in Digits

\* /^\d+\.\d+$/
IsDecimal(s) ==
  \E d \in 2..(Len(s) - 1) :
    /\ s[d] = "."
    /\ IsDigits(SubSeq(s, 1, d - 1))
    /\ IsDigits(SubSeq(s, d + 1, Len(s)))

\* the digits of parseInt(s, 10) for a run of digits
IntegerText(s) ==
  LET significant == { i \in 1..Len(s) : s[i] # "0" }
  IN IF significant = {} THEN <<"0">> ELSE SubSeq(s, Least(significant), Len(s))

\* the text of parseFloat(s) for digits '.' digits
DecimalText(s) ==
  LET d == CHOOSE k \in 1..Len(s) : s[k] = "."
      fraction == SubSeq(s, d + 1, Len(s))
      significant == { i \in 1..Len(fraction) : fraction[i] # "0" }
  IN IF significant = {} THEN IntegerText(SubSeq(s, 1, d - 1))
     ELSE IntegerText(SubSeq(s, 1, d - 1)) \o <<".">>
          \o SubSeq(fraction, 1, Greatest(significant))

\* a value JSON.parse returned (an object or an array), by its text
Json(s) == [t |-> "object", s |-> s]

\* JSON.parse(value) does not throw.  The bracketed values of the model's
\* texts are {}, [] and arrays of integers; any other is not JSON.
RECURSIVE IsIntegerList(_)
IsIntegerList(s) ==
  LET commas == { i \in 1..Len(s) : s[i] = "," }
  IN IF commas = {} THEN IsDigits(s)
     ELSE /\ IsDigits(SubSeq(s, 1, Least(commas) - 1))
          /\ IsIntegerList(SubSeq(s, Least(commas) + 1, Len(s)))

JsonParses(value) ==
  \/ value = <<"{","}">>
  \/ value = <<"[","]">>
  \/ /\ startsWith(value, <<"[">>) /\ endsWith(value, <<"]">>)
     /\ Len(value) > 2
     /\ IsIntegerList(SubSeq(value, 2, Len(value) - 1))

\* ToolExecutor.parseParameterValue with the boolean rule comparing the
\* text as written
parseParameterValueCaseSensitive(value) ==
  LET v == unescape(value) IN
  IF \/ startsWith(v, <<"{">>) /\ endsWith(v, <<"}">>)
     \/ startsWith(v, <<"[">>) /\ endsWith(v, <<"]">>)
  THEN IF JsonParses(v) THEN Json(v) ELSE Str(v)
  ELSE IF IsDigits(v) THEN Num(IntegerText(v))
  ELSE IF IsDecimal(v) THEN Num(DecimalText(v))
  ELSE IF v = <<"t","r","u","e">> THEN Bool(<<"t","r","u","e">>)
  ELSE IF v = <<"f","a","l","s","e">> THEN Bool(<<"f","a","l","s","e">>)
  ELSE Str(v)

\* ToolExecutor.parseParameterValue
parseParameterValue(value) ==
  LET v == unescape(value) IN
  IF \/ startsWith(v, <<"{">>) /\ endsWith(v, <<"}">>)
     \/ startsWith(v, <<"[">>) /\ endsWith(v, <<"]">>)
  THEN IF JsonParses(v) THEN Json(v) ELSE Str(v)
  ELSE IF IsDigits(v) THEN Num(IntegerText(v))
  ELSE IF IsDecimal(v) THEN Num(DecimalText(v))
  ELSE IF toLowerCase(v) = <<"t","r","u","e">> THEN Bool(<<"t","r","u","e">>)
  ELSE IF toLowerCase(v) = <<"f","a","l","s","e">> THEN Bool(<<"f","a","l","s","e">>)
  ELSE Str(v)

\* The identifiers occurring in the model's texts, by their characters
Spelling ==
  [ tool_call |-> <<"t","o","o","l","_","c","a","l","l">>,
    read_file |-> <<"r","e","a","d","_","f","i","l","e">>,
    read_files |-> <<"r","e","a","d","_","f","i","l","e","s">>,
    write_to_file |-> <<"w","r","i","t","e","_","t","o","_","f","i","l","e">>,
    execute_command |-> <<"e","x","e","c","u","t","e","_","c","o","m","m","a","n","d">>,
    respond_to_user |-> <<"r","e","s","p","o","n","d","_","t","o","_","u","s","e","r">>,
    path |-> <<"p","a","t","h">>,
    paths |-> <<"p","a","t","h","s">>,
    content |-> <<"c","o","n","t","e","n","t">>,
    command |-> <<"c","o","m","m","a","n","d">>,
    message |-> <<"m","e","s","s","a","g","e">>,
    type |-> <<"t","y","p","e">>,
    count |-> <<"c","o","u","n","t">>,
    ratio |-> <<"r","a","t","i","o">>,
    ids |-> <<"i","d","s">>,
    options |-> <<"o","p","t","i","o","n","s">>,
    a |-> <<"a">>,
    b |-> <<"b">> ]

\* the identifier as a key of the parameters object or a tool name
Intern(chars) == CHOOSE k \in DOMAIN Spelling : Spelling[k] = chars

\* the decoding treating content like every other parameter
decodeParameterAlwaysConverts(paramName, rawValue) == parseParameterValue(rawValue)

\* parseXmlToolCall: the value stored for one match, rawValue = match[2].trim()
decodeParameter(paramName, rawValue) ==
  IF paramName = "content" THEN Str(rawValue) ELSE parseParameterValue(rawValue)

\* parseXmlToolCall: Array.from(pathElements).map((m) => ({ path: m[1].trim() }))
PathRecords(pathsXml) ==
  LET pathElements == matchAllElements(pathsXml, 1, Spelling.path)
  IN [ t |-> "array",
       items |-> [ i \in 1..Len(pathElements) |-> [ path |-> trim(pathElements[i].raw) ] ] ]

\* ToolExecutor.parseXmlToolCall on the text of a block (the try block; no
\* call in it throws for a string)
parseXmlToolCallText(xmlContent) ==
  LET toolCallMatch1 == toolCallMatch(xmlContent) IN
  IF toolCallMatch1 = Null THEN Null
  ELSE
    LET toolName == Intern(toolCallMatch1.toolName)
        parametersXml == toolCallMatch1.parametersXml
        paramMatches == matchAllElements(parametersXml, 1, << >>)
        keys == { Intern(paramMatches[i].name) : i \in 1..Len(paramMatches) }
        last(k) == Greatest({ i \in 1..Len(paramMatches) : Intern(paramMatches[i].name) = k })
        parameters == [ k \in keys |-> decodeParameter(k, trim(paramMatches[last(k)].raw)) ]
        pathsMatch == matchAllElements(parametersXml, 1, Spelling.paths)
    IN IF /\ toolName = "read_files"
          /\ includes(parametersXml, OpenTag(Spelling.paths))
          /\ pathsMatch # << >>
       THEN [ toolName |-> toolName,
              parameters |-> [ k \in keys \cup {"paths"} |->
                                 IF k = "paths" THEN PathRecords(pathsMatch[1].raw)
                                 ELSE parameters[k] ] ]
       ELSE [ toolName |-> toolName, parameters |-> parameters ]

(***************************************************************************)
(* The codec as a function of the text of a block                          *)
(***************************************************************************)
\* Parameter tags as the model writes them, with the value each stands for:
\* the trimmed text, decoded unless the parameter is content
PathParameter ==
  [ name |-> Spelling.path, raw |-> <<"a",".","t","x","t">>,
    value |-> Str(<<"a",".","t","x","t">>) ]

PaddedPathParameter ==
  [ name |-> Spelling.path, raw |-> <<" ","a",".","t","x","t","\n">>,
    value |-> Str(<<"a",".","t","x","t">>) ]

CountParameter ==
  [ name |-> Spelling.count, raw |-> <<"0","0","7">>,
    value |-> Num(<<"7">>) ]

RatioParameter ==
  [ name |-> Spelling.ratio, raw |-> <<"1",".","5","0">>,
    value |-> Num(<<"1",".","5">>) ]

TypeParameter ==
  [ name |-> Spelling.type, raw |-> <<"T","R","U","E">>,
    value |-> Bool(<<"t","r","u","e">>) ]

ContentParameter ==
  [ name |-> Spelling.content, raw |-> <<"4","2">>,
    value |-> Str(<<"4","2">>) ]

MarkupContentParameter ==
  [ name |-> Spelling.content, raw |-> <<"<","b",">","x","<","/","b",">">>,
    value |-> Str(<<"<","b",">","x","<","/","b",">">>) ]

MessageParameter ==
  [ name |-> Spelling.message, raw |-> <<"h","i","\\","n","y","o","u">>,
    value |-> Str(<<"h","i","\n","y","o","u">>) ]

EmptyMessageParameter ==
  [ name |-> Spelling.message, raw |-> << >>,
    value |-> Str(<< >>) ]

IdsParameter ==
  [ name |-> Spelling.ids, raw |-> <<"[","1",",","2","]">>,
    value |-> Json(<<"[","1",",","2","]">>) ]

OptionsParameter ==
  [ name |-> Spelling.options, raw |-> <<"{","x","}">>,
    value |-> Str(<<"{","x","}">>) ]

PathsParameter ==
  [ name |-> Spelling.paths,
    raw |-> <<"\n","<","p","a","t","h",">","a",".","t","x","t","<","/","p","a","t","h",">","\n","<","p","a","t","h",">"," ","b"," ","<","/","p","a","t","h",">","\n">>,
    value |-> [ t |-> "array",
                items |-> << [ path |-> <<"a",".","t","x","t">> ], [ path |-> <<"b">> ] >> ] ]

CodecParameters ==
  { PathParameter, PaddedPathParameter, CountParameter, RatioParameter,
    TypeParameter, ContentParameter, MarkupContentParameter, MessageParameter,
    EmptyMessageParameter, IdsParameter, OptionsParameter }

\* The most parameter tags of a block of the model's texts
MaxParameters == 2

\* Lists of parameter tags with distinct names
ParameterLists ==
  { q \in UNION { SeqsOfLen(CodecParameters, n) : n \in 0..MaxParameters } :
      \A i, j \in 1..Len(q) : i # j => q[i].name # q[j].name }

\* The invocations written as text: a tool name and its parameter tags
CodecInvocations ==
  { [ toolName |-> name, params |-> q ] :
      name \in { Spelling.write_to_file, Spelling.respond_to_user },
      q \in ParameterLists }
  \cup { [ toolName |-> Spelling.read_file, params |-> << PathParameter >> ],
         [ toolName |-> Spelling.read_files, params |-> << PathsParameter >> ],
         [ toolName |-> Spelling.read_files, params |-> << PathsParameter, CountParameter >> ] }

\* What separates the tags of a block: nothing, or a line break
Separators == { << >>, <<"\n">> }

RECURSIVE FormatParameters(_, _)
FormatParameters(params, separator) ==
  IF params = << >> THEN << >>
  ELSE OpenTag(params[1].name) \o params[1].raw \o CloseTag(params[1].name)
       \o separator \o FormatParameters(Tail(params), separator)

\* SYSTEM_PROMPT_TOOLS: the XML form of a tool call
FormatToolCall(invocation, separator) ==
  OpenTag(ToolCallTag) \o separator
  \o OpenTag(invocation.toolName) \o separator
  \o FormatParameters(invocation.params, separator)
  \o CloseTag(invocation.toolName) \o separator
  \o CloseTag(ToolCallTag)

WellFormedTexts ==
  { FormatToolCall(invocation, separator) :
      invocation \in CodecInvocations, separator \in Separators }

\* The invocation a block of text stands for
Invocation(invocation) ==
  [ toolName |-> Intern(invocation.toolName),
    parameters |->
      [ k \in { Intern(invocation.params[i].name) : i \in 1..Len(invocation.params) } |->
          LET i == CHOOSE i \in 1..Len(invocation.params) :
                     Intern(invocation.params[i].name) = k
          IN invocation.params[i].value ] ]

\* Texts damaged so that they hold no block with a tool-name tag
WithoutOpening(text) == SubSeq(text, Len(OpenTag(ToolCallTag)) + 1, Len(text))

WithoutClosing(text) == SubSeq(text, 1, Len(text) - Len(CloseTag(ToolCallTag)))

\* a block whose tool-name tag is closed under another name
MismatchedBlock(opened, closed, separator) ==
  OpenTag(ToolCallTag) \o separator
  \o OpenTag(opened) \o separator
  \o FormatParameters(<< PathParameter >>, separator)
  \o CloseTag(closed) \o separator
  \o CloseTag(ToolCallTag)

\* a tag pair around text that is no tool-name tag
BlockAround(inner) == OpenTag(ToolCallTag) \o inner \o CloseTag(ToolCallTag)

ReadFileBlock(separator) ==
  FormatToolCall([ toolName |-> Spelling.read_file, params |-> << PathParameter >> ],
                 separator)

RespondBlock(separator) ==
  FormatToolCall([ toolName |-> Spelling.respond_to_user,
                   params |-> << MessageParameter >> ], separator)

DamagedTexts ==
  UNION { { WithoutOpening(ReadFileBlock(separator)),
            WithoutClosing(ReadFileBlock(separator)),
            MismatchedBlock(Spelling.read_file, Spelling.read_files, separator),
            MismatchedBlock(Spelling.a, Spelling.b, separator),
            MismatchedBlock(Spelling.a, Spelling.b, separator)
              \o separator \o MismatchedBlock(Spelling.b, Spelling.a, separator),
            BlockAround(separator),
            BlockAround(separator \o <<"h","e","l","l","o">> \o separator),
            BlockAround(OpenTag(Spelling.read_file) \o separator),
            BlockAround(CloseTag(Spelling.read_file) \o separator) } :
          separator \in Separators }
  \cup { << >>, <<"h","e","l","l","o">>, OpenTag(Spelling.read_file) \o CloseTag(Spelling.read_file) }

\* Texts of a block among prose, and of two blocks
SurroundedTexts ==
  UNION { { <<"o","k">> \o separator \o ReadFileBlock(separator) \o separator \o <<"d","o","n","e">>,
            ReadFileBlock(separator) \o separator \o RespondBlock(separator) } :
          separator \in Separators }

CodecTexts == WellFormedTexts \cup DamagedTexts \cup SurroundedTexts

CodecInit ==
  /\ pc = "codec"
  /\ iteration = 0
  /\ modelCalls = 0
  /\ allToolCalls \in { << text >> : text \in CodecTexts }
  /\ toolCall = Null
  /\ permissionResult = Null
  /\ approval = "none"
  /\ toolResult = Null
  /\ recorded = << >>
  /\ nCorrective = 0
  /\ zeroBlockCompletions = 0
  /\ exitReason = "none"
  /\ warned = FALSE
  /\ permissionSettings = Null
  /\ storedPermissions = DefaultPermissions("strict")
  /\ securitySettings = DefaultSecurity
  /\ handlerInvoked = FALSE
  /\ ClientIdle
  /\ SessionIdle
  /\ SharedIdle

\* ToolExecutor.parseXmlToolCall applied to the text, a first and a second time
ApplyParseXmlToolCall ==
  /\ pc \in {"codec", "parsed"}
  /\ toolCall' = parseXmlToolCallText(allToolCalls[1])
  /\ pc' = IF pc = "codec" THEN "parsed" ELSE "reparsed"
  /\ UNCHANGED << iteration, modelCalls, allToolCalls, permissionResult, approval,
                  toolResult, recorded, nCorrective, zeroBlockCompletions, exitReason,
                  warned, permissionSettings, storedPermissions, securitySettings,
                  handlerInvoked >>
  /\ UNCHANGED clientVars
  /\ UNCHANGED sessionVars
  /\ UNCHANGED sharedVars

CodecNext == ApplyParseXmlToolCall

CodecSpec == CodecInit /\ [][CodecNext]_vars

(***************************************************************************)
(* Properties of the codec (CodecSpec)                                     *)
(***************************************************************************)
Parsed == pc \in {"parsed", "reparsed"}

\* The text holds a block, from a <tool_call> to the first </tool_call> after
\* it, whose content is a tool-name tag closed under its own name
HasWellFormedBlock(text) ==
  \E i \in 1..Len(text) :
    /\ matchesAt(text, i, OpenTag(ToolCallTag))
    /\ LET from == i + Len(OpenTag(ToolCallTag))
           ends == { j \in from..Len(text) : matchesAt(text, j, CloseTag(ToolCallTag)) }
       IN /\ ends # {}
          /\ LET inner == trim(SubSeq(text, from, Least(ends) - 1))
             IN /\ tagEndAt(inner, 1) # 0
                /\ Len(inner) >= Len(OpenTag(tagNameAt(inner, 1)))
                                 + Len(CloseTag(tagNameAt(inner, 1)))
                /\ endsWith(inner, CloseTag(tagNameAt(inner, 1)))

C22_MalformedTextYieldsNull ==
  Parsed =>
    /\ ~IsRaised(toolCall)
    /\ toolCall = Null \/ DOMAIN toolCall = {"toolName", "parameters"}
    /\ ~HasWellFormedBlock(allToolCalls[1]) => toolCall = Null

(***************************************************************************)
(* Properties of the end of a turn (Spec)                                  *)
(***************************************************************************)
\* C23: when chatCompletion raises in a pass (a model call was made and no
\* assistant message was recorded), the turn ends at once with the error
\* reported: processUserMessage has returned, nothing was appended, no
\* permission check, approval or tool execution took place in the pass, and
\* the next model call belongs to a new turn.
C23_ModelCallErrorEndsTurn ==
  [][ /\ (pc = "loop" /\ modelCalls' = modelCalls + 1 /\ recorded' = << >>) =>
           /\ pc' = "idle"
           /\ exitReason' = "error"
           /\ UNCHANGED << toolCall, permissionResult, approval, toolResult,
                           handlerInvoked, permissionSettings, storedPermissions,
                           securitySettings >>
      /\ (pc = "idle" /\ exitReason = "error") =>
           (pc' = "loop" /\ modelCalls' = 0 /\ iteration' = 0 /\ exitReason' = "none") ]_vars

\* C23 witness: the second model call of a turn raised and the turn is over
C23_Witness ==
  /\ pc = "idle"
  /\ exitReason = "error"
  /\ modelCalls = 2
  /\ recorded = << >>
  /\ toolCall = Null

(***************************************************************************)
(* The input loop and the awaited calls of a turn                          *)
(***************************************************************************)
\* the call of processUserMessage without its await
AwaitsTurnDropped == FALSE

\* startChatLoop: await this.chatEngine.processUserMessage(userInput)
AwaitsTurn == TRUE

\* What the operator types at the prompt
UserInputs == {"quit", "command", "empty", "message"}

\* The outcomes of a pass between the model call and the next awaited call
PassOutcomes == {"raises", "no_single_call", "not_permitted", "needs_approval", "permitted"}

Begin(flights, activity) == [ flights EXCEPT ![activity] = @ + 1 ]

End(flights, activity) == [ flights EXCEPT ![activity] = @ - 1 ]

\* processUserMessage returns: the promise startChatLoop may be awaiting settles
ReturnToCaller ==
  /\ pc' = "idle"
  /\ handler' = IF handler = "awaiting" THEN "reading" ELSE handler

\* What the input loop and the awaited calls leave alone
turnLocals == << modelCalls, allToolCalls, toolCall, permissionResult, approval,
                 toolResult, recorded, nCorrective, zeroBlockCompletions, exitReason,
                 warned, permissionSettings, storedPermissions, securitySettings,
                 handlerInvoked, configReads, lastSaver >>

SessionInit ==
  /\ pc = "idle"
  /\ iteration = 0
  /\ modelCalls = 0
  /\ allToolCalls = << >>
  /\ toolCall = Null
  /\ permissionResult = Null
  /\ approval = "none"
  /\ toolResult = Null
  /\ recorded = << >>
  /\ nCorrective = 0
  /\ zeroBlockCompletions = 0
  /\ exitReason = "none"
  /\ warned = FALSE
  /\ permissionSettings = Null
  /\ storedPermissions = DefaultPermissions("normal")
  /\ securitySettings = DefaultSecurity
  /\ handlerInvoked = FALSE
  /\ ClientIdle
  /\ SessionIdle
  /\ SharedIdle

\* startChatLoop: one pass of while (true) up to the call of llmLoop
GetUserInput ==
  /\ handler = "reading"
  /\ \E userInput \in UserInputs :
       CASE userInput = "quit" ->
              /\ handler' = "stopped"
              /\ UNCHANGED << pc, iteration >>
         [] userInput \in {"command", "empty"} ->
              UNCHANGED << pc, iteration, handler >>
         [] userInput = "message" ->
              /\ pc' = "loop"
              /\ iteration' = 0
              /\ handler' = IF AwaitsTurn THEN "awaiting" ELSE "reading"
  /\ UNCHANGED << inFlight, turnLocals, clientVars >>

\* llmLoop: iteration++ and the call of chatCompletion
BeginModelCall ==
  /\ pc = "loop"
  /\ LoopCondition
  /\ iteration' = iteration + 1
  /\ inFlight' = Begin(inFlight, "model")
  /\ pc' = "InModelCall"
  /\ UNCHANGED << handler, turnLocals, clientVars >>

\* llmLoop: the loop condition fails, processUserMessage returns
LoopEnds ==
  /\ pc = "loop"
  /\ ~LoopCondition
  /\ ReturnToCaller
  /\ UNCHANGED << iteration, inFlight, turnLocals, clientVars >>

\* llmLoop and handleToolCall: chatCompletion settles, the pass goes on to
\* its next awaited call, to the next pass or out of the loop
EndModelCall ==
  /\ pc = "InModelCall"
  /\ \E outcome \in PassOutcomes :
       CASE outcome = "raises" ->
              /\ ReturnToCaller
              /\ inFlight' = End(inFlight, "model")
         [] outcome \in {"no_single_call", "not_permitted"} ->
              /\ pc' = "loop"
              /\ inFlight' = End(inFlight, "model")
              /\ UNCHANGED handler
         [] outcome = "needs_approval" ->
              /\ pc' = "InApproval"
              /\ inFlight' = Begin(End(inFlight, "model"), "approval")
              /\ UNCHANGED handler
         [] outcome = "permitted" ->
              /\ pc' = "InExecution"
              /\ inFlight' = Begin(End(inFlight, "model"), "execution")
              /\ UNCHANGED handler
  /\ UNCHANGED << iteration, turnLocals, clientVars >>

\* handleToolCall: requestApproval settles
EndApproval ==
  /\ pc = "InApproval"
  /\ \E choice \in ApprovalChoice :
       IF ApprovalDenied(choice)
       THEN /\ pc' = "loop"
            /\ inFlight' = End(inFlight, "approval")
       ELSE /\ pc' = "InExecution"
            /\ inFlight' = Begin(End(inFlight, "approval"), "execution")
  /\ UNCHANGED << iteration, handler, turnLocals, clientVars >>

\* handleToolCall and llmLoop: executeTool settles
EndExecution ==
  /\ pc = "InExecution"
  /\ inFlight' = End(inFlight, "execution")
  /\ \E toolExecuted \in BOOLEAN, toolName \in {"respond_to_user", "write_to_file"} :
       IF BreaksLoop(toolExecuted, toolName)
       THEN ReturnToCaller
       ELSE pc' = "loop" /\ UNCHANGED handler
  /\ UNCHANGED << iteration, turnLocals, clientVars >>

SessionNext ==
  \/ GetUserInput
  \/ BeginModelCall
  \/ LoopEnds
  \/ EndModelCall
  \/ EndApproval
  \/ EndExecution

SessionSpec == SessionInit /\ [][SessionNext]_vars

(***************************************************************************)
(* Properties of the session's activities (SessionSpec)                    *)
(***************************************************************************)
InFlightCount(flights) == flights["model"] + flights["approval"] + flights["execution"]

\* C24: at most one awaited call (model call, approval prompt, tool
\* execution) is in flight at any time, and a turn starts only when the loop
\* of the previous turn has ended and nothing is in flight.
C24_OneActivityAtATime ==
  [][ /\ InFlightCount(inFlight') <= 1
      /\ (pc' = "loop" /\ iteration' = 0 /\ handler = "reading") =>
           (pc = "idle" /\ inFlight = NoActivity) ]_vars

\* C24 witness: in the second pass of a turn a tool runs, alone in flight,
\* while the input loop waits for the turn
C24_Witness ==
  /\ pc = "InExecution"
  /\ iteration = 2
  /\ handler = "awaiting"
  /\ inFlight = [ NoActivity EXCEPT !["execution"] = 1 ]

(***************************************************************************)
(* PermissionManager: the policy mutators                                  *)
(***************************************************************************)
\* settings.permanentlyAllowed.indexOf(toolName), 0 for -1
indexOf(list, toolName) ==
  IF listIncludes(list, toolName)
  THEN Least({ i \in 1..Len(list) : list[i] = toolName })
  ELSE 0

\* settings.permanentlyAllowed.splice(index, 1)
splice(list, index) ==
  SubSeq(list, 1, index - 1) \o SubSeq(list, index + 1, Len(list))

\* PermissionManager.removeFromPermanentlyAllowed: the settings after the call
removeFromPermanentlyAllowed(settings, toolName) ==
  IF indexOf(settings.permanentlyAllowed, toolName) # 0
  THEN [ settings EXCEPT !.permanentlyAllowed =
           splice(@, indexOf(settings.permanentlyAllowed, toolName)) ]
  ELSE settings

\* PermissionManager.setPermissionLevel: the settings after the call
setPermissionLevel(settings, level) == [ settings EXCEPT !.permissionLevel = level ]

\* PermissionManager.saveSettings on the object the mutator changed in place.
\* The object is the cache itself, so the cache holds the change whether or
\* not ConfigManager.savePermissionSettings raises.
saveSettings(settings, saveOk) ==
  /\ permissionSettings' = settings
  /\ IF saveOk
     THEN storedPermissions' = settings /\ pc' = "returned"
     ELSE UNCHANGED storedPermissions /\ pc' = "raised"

\* A mutator that found nothing to change: loadSettings filled the cache
ReturnsUnsaved ==
  /\ permissionSettings' = loadSettings
  /\ UNCHANGED storedPermissions
  /\ pc' = "returned"

\* The tools the operator adds to and removes from the list
MutatorTools == {"write_to_file", "execute_command"}

\* What the mutators leave alone
mutatorFrame == << iteration, modelCalls, allToolCalls, toolCall, permissionResult,
                   approval, toolResult, recorded, nCorrective, zeroBlockCompletions,
                   exitReason, warned, securitySettings, handlerInvoked,
                   configReads, lastSaver >>

MutatorInit ==
  /\ pc = "constructed"
  /\ iteration = 0
  /\ modelCalls = 0
  /\ allToolCalls = << >>
  /\ toolCall = Null
  /\ permissionResult = Null
  /\ approval = "none"
  /\ toolResult = Null
  /\ recorded = << >>
  /\ nCorrective = 0
  /\ zeroBlockCompletions = 0
  /\ exitReason = "none"
  /\ warned = FALSE
  /\ permissionSettings = Null
  /\ storedPermissions \in { DefaultPermissions(level) : level \in PermissionLevels }
  /\ securitySettings = DefaultSecurity
  /\ handlerInvoked = FALSE
  /\ ClientIdle
  /\ SessionIdle
  /\ SharedIdle

\* PermissionManager.addToPermanentlyAllowed(toolName)
AddToPermanentlyAllowed ==
  /\ \E toolName \in MutatorTools, saveOk \in BOOLEAN :
       IF ~listIncludes(loadSettings.permanentlyAllowed, toolName)
       THEN saveSettings(addToPermanentlyAllowed(loadSettings, toolName), saveOk)
       ELSE ReturnsUnsaved
  /\ UNCHANGED << mutatorFrame, clientVars, sessionVars >>

\* PermissionManager.removeFromPermanentlyAllowed(toolName)
RemoveFromPermanentlyAllowed ==
  /\ \E toolName \in MutatorTools, saveOk \in BOOLEAN :
       IF indexOf(loadSettings.permanentlyAllowed, toolName) # 0
       THEN saveSettings(removeFromPermanentlyAllowed(loadSettings, toolName), saveOk)
       ELSE ReturnsUnsaved
  /\ UNCHANGED << mutatorFrame, clientVars, sessionVars >>

\* PermissionManager.setPermissionLevel(level)
SetPermissionLevel ==
  /\ \E level \in PermissionLevels, saveOk \in BOOLEAN :
       saveSettings(setPermissionLevel(loadSettings, level), saveOk)
  /\ UNCHANGED << mutatorFrame, clientVars, sessionVars >>

MutatorNext ==
  \/ AddToPermanentlyAllowed
  \/ RemoveFromPermanentlyAllowed
  \/ SetPermissionLevel

MutatorSpec == MutatorInit /\ [][MutatorNext]_vars

(***************************************************************************)
(* Properties of the policy mutators (MutatorSpec)                         *)
(***************************************************************************)
\* C25: a mutator that returns leaves the cache and the persisted settings
\* holding the same value; a mutator whose save raises leaves the policy that
\* checkPermission reads as it was before the call.
C25_MutatorsAtomic ==
  [][ /\ (pc' = "returned") => permissionSettings' = storedPermissions'
      /\ (pc' = "raised") => loadSettings' = loadSettings ]_vars

(***************************************************************************)
(* Properties of the max-iterations warning (Spec)                         *)
(***************************************************************************)
\* C26: the max-iterations warning is printed for a turn exactly when the
\* turn was cut off by the cap; a turn ended by a successful respond_to_user
\* or by an error never prints it, on whichever pass that happens.
C26_WarningOnlyAtCap ==
  (pc = "idle" /\ exitReason # "none") => (warned <=> exitReason = "cap")

(***************************************************************************)
(* Properties of the order of persistence and execution (Spec)             *)
(***************************************************************************)
Persisted(settings, stored, toolName) ==
  /\ CachedAllowed(settings, toolName)
  /\ listIncludes(stored.permanentlyAllowed, toolName)

\* C27: on allow_always the tool name is on the permanently-allowed list,
\* in the cache and persisted, when execution begins, and it stays there
\* whatever executeTool does: unknown tool, failed validation, a handler
\* that fails, throws or succeeds.
C27_PersistedBeforeExecution ==
  [][ /\ (pc = "AwaitingApproval" /\ approval' = "allow_always" /\ pc' = "Executing") =>
           Persisted(permissionSettings', storedPermissions', toolCall.toolName)
      /\ (pc = "Executing" /\ approval = "allow_always") =>
           /\ Persisted(permissionSettings, storedPermissions, toolCall.toolName)
           /\ Persisted(permissionSettings', storedPermissions', toolCall.toolName) ]_vars

\* C27 witness: an unregistered tool was approved with allow_always, its
\* execution failed, and its name is on the persisted list
C27_Witness ==
  /\ pc = "loop"
  /\ recorded # << >>
  /\ Last(recorded) = ToolResponse(FALSE, "unknown_tool", "")
  /\ Persisted(permissionSettings, storedPermissions, "frobnicate")

(***************************************************************************)
(* The limit on recorded command output (handleToolCall, after executeTool)*)
(***************************************************************************)
\* handleToolCall: the number of lines of stdout and of stderr that are kept
MaxLines == 100

\* handleToolCall: the text appended to a cut stream, '\n...[省略]...'
\* (the two kanji are written in Latin letters)
ElisionMarker == <<"\n",".",".",".","[","s","h","o","r","y","a","k","u","]",".",".",".">>

\* String.prototype.split with a one-character separator: the pieces between
\* the separators, in order (computed by halving at a middle separator)
RECURSIVE split(_, _)
split(text, separator) ==
  LET at  == { i \in 1..Len(text) : text[i] = separator }
      mid == CHOOSE i \in at :
               Cardinality({ j \in at : j < i }) = Cardinality(at) \div 2
  IN IF at = {} THEN << text >>
     ELSE split(SubSeq(text, 1, mid - 1), separator)
            \o split(SubSeq(text, mid + 1, Len(text)), separator)

\* Array.prototype.join with a one-character separator (computed by halving)
RECURSIVE join(_, _)
join(parts, separator) ==
  LET half == Len(parts) \div 2
  IN IF parts = << >> THEN << >>
     ELSE IF Len(parts) = 1 THEN parts[1]
     ELSE join(SubSeq(parts, 1, half), separator) \o << separator >>
            \o join(SubSeq(parts, half + 1, Len(parts)), separator)

\* handleToolCall: lines.length > 100 ? lines.slice(0, 100).join('\n') + marker : unchanged
limitLines(text) ==
  LET lines == split(text, "\n")
  IN IF Len(lines) > MaxLines
     THEN join(SubSeq(lines, 1, MaxLines), "\n") \o ElisionMarker
     ELSE text

\* handleToolCall: toolName === 'execute_command' && result.success &&
\* result.data && typeof result.data.stdout === 'string'
limitApplies(call, result) ==
  /\ call.toolName = "execute_command"
  /\ result.success
  /\ result.data # Null
  /\ result.data.stdout.t = "string"

\* handleToolCall: the result as it is after the limit (data is changed in place)
limitOutput(call, result) ==
  IF limitApplies(call, result)
  THEN [ result EXCEPT
           !.data.stdout = Str(limitLines(result.data.stdout.s)),
           !.data.stderr = IF result.data.stderr.t = "string"
                           THEN Str(limitLines(result.data.stderr.s))
                           ELSE result.data.stderr ]
  ELSE result

\* BaseTool.success(data) and BaseTool.error(error, data) of ExecuteCommandTool.execute:
\* data carries stdout and stderr whether the command succeeded or failed
CommandResult(success, stdout, stderr) ==
  [ success |-> success,
    error   |-> IF success THEN "" ELSE "command_failed",
    data    |-> [ stdout |-> Str(stdout), stderr |-> Str(stderr) ] ]

\* ExecuteCommandTool.execute: the catch clause, this.error(message) without data
SpawnFailure == [ success |-> FALSE, error |-> "command_error", data |-> Null ]

\* WriteToFileTool.execute: a result that carries no stdout
WrittenResult == [ success |-> TRUE, error |-> "", data |-> Null ]

\* n lines "x" joined by line feeds
LinesOfOutput(n) ==
  IF n = 0 THEN << >>
  ELSE [ i \in 1..(2 * n - 1) |-> IF i % 2 = 1 THEN "x" ELSE "\n" ]

\* What a process can write: nothing, one line, exactly the limit, one and two
\* lines more, and the limit with a final line feed
CommandOutputs ==
  { LinesOfOutput(0), LinesOfOutput(1), LinesOfOutput(MaxLines),
    LinesOfOutput(MaxLines + 1), LinesOfOutput(MaxLines + 2),
    LinesOfOutput(MaxLines) \o << "\n" >> }

\* The results executeTool hands to handleToolCall
ExecutedResults ==
  { << ExecLs, CommandResult(success, stdout, stderr) >> :
      success \in BOOLEAN, stdout \in CommandOutputs, stderr \in CommandOutputs }
  \cup { << ExecLs, SpawnFailure >>, << WriteNotes, WrittenResult >> }

\* recordMessage: '<tool_response>' + JSON.stringify(result) + '</tool_response>'
ResponseOf(result) == [ role |-> "user", kind |-> "tool_response", result |-> result ]

LimitInit ==
  /\ pc = "Executed"
  /\ iteration = 1
  /\ modelCalls = 1
  /\ allToolCalls = << >>
  /\ \E executed \in ExecutedResults :
       /\ toolCall = executed[1]
       /\ toolResult = executed[2]
  /\ permissionResult = Null
  /\ approval = "none"
  /\ recorded = << >>
  /\ nCorrective = 0
  /\ zeroBlockCompletions = 0
  /\ exitReason = "none"
  /\ warned = FALSE
  /\ permissionSettings = Null
  /\ storedPermissions = DefaultPermissions("strict")
  /\ securitySettings = DefaultSecurity
  /\ handlerInvoked = TRUE
  /\ ClientIdle
  /\ SessionIdle
  /\ SharedIdle

\* handleToolCall from the return of executeTool to the recorded tool response
LimitAndRecord ==
  /\ pc = "Executed"
  /\ toolResult' = limitOutput(toolCall, toolResult)
  /\ recorded' = << ResponseOf(toolResult') >>
  /\ pc' = "recorded"
  /\ UNCHANGED << iteration, modelCalls, allToolCalls, toolCall, permissionResult,
                  approval, nCorrective, zeroBlockCompletions, exitReason, warned,
                  permissionSettings, storedPermissions, securitySettings,
                  handlerInvoked >>
  /\ UNCHANGED clientVars
  /\ UNCHANGED sessionVars
  /\ UNCHANGED sharedVars

LimitNext == LimitAndRecord

LimitSpec == LimitInit /\ [][LimitNext]_vars

(***************************************************************************)
(* Properties of the limit on recorded output (LimitSpec)                  *)
(***************************************************************************)
\* The number of lines of a text: one more than its line feeds
LineCount(text) == Cardinality({ i \in 1..Len(text) : text[i] = "\n" }) + 1

\* The text up to, and without, its n-th line feed
FirstLines(text, n) ==
  LET feeds == { i \in 1..Len(text) : text[i] = "\n" }
      nth   == CHOOSE i \in feeds : Cardinality({ j \in feeds : j <= i }) = n
  IN SubSeq(text, 1, nth - 1)

\* A stream as the claim has it recorded
Limited(text) ==
  IF LineCount(text) > MaxLines THEN FirstLines(text, MaxLines) \o ElisionMarker
  ELSE text

\* C28: the recorded result of every executed command, whatever its success
\* flag, carries stdout and stderr cut to the first 100 lines followed by the
\* elision marker when they exceed 100 lines, and unchanged otherwise.
C28_RecordedOutputLimited ==
  [][ ( /\ pc = "Executed" /\ pc' = "recorded"
        /\ toolCall.toolName = "execute_command"
        /\ toolResult.data # Null ) =>
        /\ recorded'[1].result.data.stdout.s = Limited(toolResult.data.stdout.s)
        /\ recorded'[1].result.data.stderr.s = Limited(toolResult.data.stderr.s) ]_vars

(***************************************************************************)
(* checkTool as a function of the path of a write or a directory creation  *)
(***************************************************************************)
\* String.prototype.toUpperCase
toUpperCase(s) ==
  [ i \in 1..Len(s) |->
      IF \E k \in 1..Len(LowerCase) : LowerCase[k] = s[i]
      THEN UpperCase[CHOOSE k \in 1..Len(LowerCase) : LowerCase[k] = s[i]]
      ELSE s[i] ]

\* The path written with backward slashes only
withBackslashes(s) == [ i \in 1..Len(s) |-> IF s[i] = "/" THEN "\\" ELSE s[i] ]

\* A file under each entry of dangerousPaths, written as the entry is, with
\* forward slashes, with backward slashes, and in capital letters
PathsUnderDangerous ==
  UNION { { d \o <<"x">>,
            replaceBackslashes(d) \o <<"x">>,
            withBackslashes(d) \o <<"x">>,
            toUpperCase(d) \o <<"x">> } :
          d \in { dangerousPaths[i] : i \in 1..Len(dangerousPaths) } }

\* Paths under no entry: relative, an entry without its last separator, an
\* entry further down the path, an entry's name continued, and the empty path
PathsElsewhere ==
  { <<"n","o","t","e","s",".","t","x","t">>,
    <<"/","e","t","c">>,
    <<"/","h","o","m","e","/","e","t","c","/","x">>,
    <<"e","t","c","/","x">>,
    <<"/","e","t","c","e","t","e","r","a","/","x">>,
    <<"d",":","\\","w","i","n","d","o","w","s","\\","x">>,
    << >> }

\* The write_to_file and create_directory calls checkTool is applied to
PathCalls ==
  { [ toolName |-> t, parameters |-> [ path |-> Str(p), content |-> Hello ] ] :
      t \in {"write_to_file", "create_directory"},
      p \in PathsUnderDangerous \cup PathsElsewhere }
  \cup { WriteNoPath, WriteNumberPath }

PathInit ==
  /\ pc = "path"
  /\ iteration = 0
  /\ modelCalls = 0
  /\ allToolCalls = << >>
  /\ toolCall \in PathCalls
  /\ permissionResult = Null
  /\ approval = "none"
  /\ toolResult = Null
  /\ recorded = << >>
  /\ nCorrective = 0
  /\ zeroBlockCompletions = 0
  /\ exitReason = "none"
  /\ warned = FALSE
  /\ permissionSettings = Null
  /\ storedPermissions = DefaultPermissions("strict")
  /\ securitySettings \in SecurityStates
  /\ handlerInvoked = FALSE
  /\ ClientIdle
  /\ SessionIdle
  /\ SharedIdle

\* SecurityManager.checkTool applied to the call; permissionResult holds the
\* SecurityCheckResult, or Raised
ApplyCheckTool ==
  /\ pc = "path"
  /\ permissionResult' = checkTool(toolCall.toolName, toolCall.parameters, securitySettings)
  /\ pc' = "checked"
  /\ UNCHANGED << iteration, modelCalls, allToolCalls, toolCall, approval, toolResult,
                  recorded, nCorrective, zeroBlockCompletions, exitReason, warned,
                  permissionSettings, storedPermissions, securitySettings,
                  handlerInvoked >>
  /\ UNCHANGED clientVars
  /\ UNCHANGED sessionVars
  /\ UNCHANGED sharedVars

PathNext == ApplyCheckTool

PathSpec == PathInit /\ [][PathNext]_vars

(***************************************************************************)
(* Properties of the path check (PathSpec)                                 *)
(***************************************************************************)
\* The claim's sensitive prefixes, as the claim writes them
SensitivePrefixes ==
  { <<"/","e","t","c","/">>,
    <<"/","b","i","n","/">>,
    <<"/","s","b","i","n","/">>,
    <<"/","u","s","r","/","b","i","n","/">>,
    <<"/","u","s","r","/","s","b","i","n","/">>,
    <<"/","s","y","s","t","e","m","/">>,
    <<"/","w","i","n","d","o","w","s","/">>,
    <<"c",":","\\","w","i","n","d","o","w","s","\\">>,
    <<"c",":","\\","p","r","o","g","r","a","m"," ","f","i","l","e","s","\\">>,
    <<"/","b","o","o","t","/">>,
    <<"/","d","e","v","/">>,
    <<"/","p","r","o","c","/">>,
    <<"/","s","y","s","/">> }

\* Either slash reads as the same separator and letter case is ignored
SameSpelling(a, b) == replaceBackslashes(toLowerCase(a)) = replaceBackslashes(toLowerCase(b))

\* The path starts with a sensitive prefix, in either slash and any letter case
UnderSensitivePrefix(path) ==
  \E prefix \in SensitivePrefixes :
    /\ Len(prefix) <= Len(path)
    /\ SameSpelling(SubSeq(path, 1, Len(prefix)), prefix)

\* C29: checkTool denies as high risk every write_to_file or create_directory
\* call whose path starts with a sensitive prefix, written with forward or
\* backward slashes and in any letter case; every other such call is allowed
\* as medium risk.
C29_SensitivePathsDenied ==
  (pc = "checked" /\ toolCall.toolName \in {"write_to_file", "create_directory"}) =>
    /\ ~IsRaised(permissionResult)
    /\ IF /\ HasParameter(toolCall.parameters, "path")
          /\ toolCall.parameters["path"].t = "string"
          /\ UnderSensitivePrefix(toolCall.parameters["path"].s)
       THEN ~permissionResult.allowed /\ permissionResult.riskLevel = "high"
       ELSE permissionResult.allowed /\ permissionResult.riskLevel = "medium"

(***************************************************************************)
(* convertError as a function of the value the transport threw            *)
(***************************************************************************)
\* The 'status' property of the thrown Error: absent, or an HTTP status
ErrorStatuses ==
  { << >>, << 200 >>, << 400 >>, << 401 >>, << 403 >>, << 404 >>, << 429 >>,
    << 499 >>, << 500 >>, << 502 >>, << 503 >> }

\* The message of the thrown Error
ErrorMessages ==
  { <<"b","o","o","m">>,
    <<"f","e","t","c","h"," ","f","a","i","l","e","d">>,
    <<"n","e","t","w","o","r","k"," ","d","o","w","n">>,
    <<"n","o"," ","f","e","t","c","h",","," ","n","o"," ","n","e","t","w","o","r","k">>,
    EmptyResponseMessage,
    EmptyResponseMessage \o <<" ","(","f","e","t","c","h",")">>,
    << >> }

\* What convertError can be handed: Errors of the transport, a thrown value
\* that is no Error, and an ApiError literal made by an earlier conversion
ThrownValues ==
  { JsError(status, message) : status \in ErrorStatuses, message \in ErrorMessages }
  \cup { NonError, ApiError("server", ServerMessage, TRUE) }

ConvertInit ==
  /\ pc = "thrown"
  /\ iteration = 0
  /\ modelCalls = 0
  /\ allToolCalls = << >>
  /\ toolCall = Null
  /\ permissionResult = Null
  /\ approval = "none"
  /\ toolResult = Null
  /\ recorded = << >>
  /\ nCorrective = 0
  /\ zeroBlockCompletions = 0
  /\ exitReason = "none"
  /\ warned = FALSE
  /\ permissionSettings = Null
  /\ storedPermissions = DefaultPermissions("strict")
  /\ securitySettings = DefaultSecurity
  /\ handlerInvoked = FALSE
  /\ transport \in { << Rejects(error) >> : error \in ThrownValues }
  /\ attempt = 0
  /\ attempts = 1
  /\ delays = << >>
  /\ lastError = Null
  /\ callOutcome = Null
  /\ SessionIdle
  /\ SharedIdle

\* The catch clause of the chatCompletion closure: throw this.convertError(error)
ApplyConvertError ==
  /\ pc = "thrown"
  /\ lastError' = convertError(transport[1].error)
  /\ pc' = "converted"
  /\ UNCHANGED << iteration, modelCalls, allToolCalls, toolCall, permissionResult,
                  approval, toolResult, recorded, nCorrective, zeroBlockCompletions,
                  exitReason, warned, permissionSettings, storedPermissions,
                  securitySettings, handlerInvoked >>
  /\ UNCHANGED << transport, attempt, attempts, delays, callOutcome >>
  /\ UNCHANGED sessionVars
  /\ UNCHANGED sharedVars

ConvertNext == ApplyConvertError

ConvertSpec == ConvertInit /\ [][ConvertNext]_vars

(***************************************************************************)
(* Properties of the classification (ConvertSpec)                          *)
(***************************************************************************)
\* The thrown value is an Error that carries the HTTP status n
CarriesStatus(error, n) == error.status # << >> /\ error.status[1] = n

\* The thrown value is an Error whose message mentions the word
Mentions(error, word) == includes(error.message, word)

\* C30: convertError classifies the thrown value by the first rule that
\* matches: blank-completion error -> server, retryable; status 429 ->
\* rate_limit, retryable; status 401 or 403 -> auth, fatal; status >= 500 ->
\* server, retryable; message mentioning fetch or network -> network,
\* retryable; anything else, a value that is no Error included -> unknown, fatal.
C30_FirstMatchingRule ==
  pc = "converted" =>
    LET error == transport[1].error
        class == << lastError.type, lastError.retryable >>
    IN IF ~error.instanceOfError THEN class = << "unknown", FALSE >>
       ELSE IF Mentions(error, EmptyResponseMarker) THEN class = << "server", TRUE >>
       ELSE IF CarriesStatus(error, 429) THEN class = << "rate_limit", TRUE >>
       ELSE IF CarriesStatus(error, 401) \/ CarriesStatus(error, 403)
            THEN class = << "auth", FALSE >>
       ELSE IF error.status # << >> /\ error.status[1] >= 500
            THEN class = << "server", TRUE >>
       ELSE IF \/ Mentions(error, <<"f","e","t","c","h">>)
               \/ Mentions(error, <<"n","e","t","w","o","r","k">>)
            THEN class = << "network", TRUE >>
       ELSE class = << "unknown", FALSE >>

\* C30 witness: an Error with status 401 whose message mentions fetch was
\* classified auth, the earlier rule, and not network
C30_Witness ==
  /\ pc = "converted"
  /\ transport[1].error.instanceOfError
  /\ CarriesStatus(transport[1].error, 401)
  /\ Mentions(transport[1].error, <<"f","e","t","c","h">>)
  /\ ~Mentions(transport[1].error, EmptyResponseMarker)
  /\ lastError.type = "auth"
  /\ ~lastError.retryable

(***************************************************************************)
(* The approval prompt (ApprovalManager.requestApproval)                   *)
(*                                                                         *)
(* In this specification transport is what Deno.stdin.read yields at each  *)
(* read, attempts counts the reads made and callOutcome is the             *)
(* ApprovalResult returned, or Null while the prompt is open.              *)
(***************************************************************************)
\* The reads of standard input one prompt is followed through
MaxReads == 3

\* Deno.stdin.read: null at the end of input, else the bytes read
EndOfInput == [ eof |-> TRUE, bytes |-> << >> ]

Typed(bytes) == [ eof |-> FALSE, bytes |-> bytes ]

\* input.replace(/\r?\n$/, '')
stripLineEnd(s) ==
  IF endsWith(s, <<"\r","\n">>) THEN SubSeq(s, 1, Len(s) - 2)
  ELSE IF endsWith(s, <<"\n">>) THEN SubSeq(s, 1, Len(s) - 1)
  ELSE s

\* ApprovalManager.getUserInput: '' at the end of input, else the decoded
\* bytes without the final line end, trimmed
getUserInput(read) ==
  IF read.eof THEN << >> ELSE trim(stripLineEnd(read.bytes))

\* ApprovalResult
ApprovalResult(choice, remember) == [ choice |-> choice, remember |-> remember ]

\* the switch with a default case that denies
approvalSwitchDefaultDenies(input) ==
  CASE trim(input) = <<"1">> -> ApprovalResult("allow_once", FALSE)
    [] trim(input) = <<"2">> -> ApprovalResult("allow_always", TRUE)
    [] OTHER -> ApprovalResult("deny", FALSE)

\* requestApproval: switch (input.trim()); Null for the default case, which
\* prints the error line and goes round the loop
approvalSwitch(input) ==
  CASE trim(input) = <<"1">> -> ApprovalResult("allow_once", FALSE)
    [] trim(input) = <<"2">> -> ApprovalResult("allow_always", TRUE)
    [] trim(input) = <<"3">> -> ApprovalResult("deny", FALSE)
    [] OTHER -> Null

\* What the human may enter at one prompt
StdinReads ==
  { EndOfInput,
    Typed(<<"1","\n">>),
    Typed(<<"2","\r","\n">>),
    Typed(<<" ","3"," ","\n">>),
    Typed(<<"\n">>),
    Typed(<<"4","\n">>),
    Typed(<<"1","2","\n">>),
    Typed(<<"1","\n","2","\n">>),
    Typed(<<"y","e","s","\n">>),
    Typed(<<"a","l","l","o","w","_","o","n","c","e","\n">>) }

ApprovalInit ==
  /\ pc = "prompting"
  /\ iteration = 1
  /\ modelCalls = 1
  /\ allToolCalls = << >>
  /\ toolCall = WriteNotes
  /\ permissionResult = Null
  /\ approval = "none"
  /\ toolResult = Null
  /\ recorded = << >>
  /\ nCorrective = 0
  /\ zeroBlockCompletions = 0
  /\ exitReason = "none"
  /\ warned = FALSE
  /\ permissionSettings = Null
  /\ storedPermissions = DefaultPermissions("strict")
  /\ securitySettings = DefaultSecurity
  /\ handlerInvoked = FALSE
  /\ transport \in SeqsOfLen(StdinReads, MaxReads)
  /\ attempt = 0
  /\ attempts = 0
  /\ delays = << >>
  /\ lastError = Null
  /\ callOutcome = Null
  /\ SessionIdle
  /\ SharedIdle

\* requestApproval: one pass of while (true): await getUserInput, then the switch
PromptOnce ==
  /\ pc = "prompting"
  /\ attempts < Len(transport)
  /\ attempts' = attempts + 1
  /\ LET result == approvalSwitch(getUserInput(transport[attempts + 1])) IN
       /\ callOutcome' = result
       /\ pc' = IF result = Null THEN "prompting" ELSE "returned"
       /\ approval' = IF result = Null THEN approval ELSE result.choice
  /\ UNCHANGED << iteration, modelCalls, allToolCalls, toolCall, permissionResult,
                  toolResult, recorded, nCorrective, zeroBlockCompletions,
                  exitReason, warned, permissionSettings, storedPermissions,
                  securitySettings, handlerInvoked >>
  /\ UNCHANGED << transport, attempt, delays, lastError >>
  /\ UNCHANGED sessionVars
  /\ UNCHANGED sharedVars

ApprovalNext == PromptOnce

ApprovalSpec == ApprovalInit /\ [][ApprovalNext]_vars

(***************************************************************************)
(* Properties of the approval prompt (ApprovalSpec)                        *)
(***************************************************************************)
\* What the human entered at the read: the line without its end and the blanks
\* around it; nothing at the end of input
Entered(read) == IF read.eof THEN << >> ELSE trim(read.bytes)

\* C31: requestApproval returns only on input 1, 2 or 3, as allow_once
\* (remember false), allow_always (remember true) and deny (remember false);
\* on any other input, the empty input and the end of input included, it
\* prompts again without an outcome; and the wait ends by nothing but a read
\* (there is no timeout): every step of an open prompt is a read of input.
C31_ReturnsOnlyOnValidChoice ==
  [][ pc = "prompting" =>
        /\ attempts' = attempts + 1
        /\ LET input == Entered(transport[attempts']) IN
             /\ input = <<"1">> =>
                  pc' = "returned" /\ callOutcome' = ApprovalResult("allow_once", FALSE)
             /\ input = <<"2">> =>
                  pc' = "returned" /\ callOutcome' = ApprovalResult("allow_always", TRUE)
             /\ input = <<"3">> =>
                  pc' = "returned" /\ callOutcome' = ApprovalResult("deny", FALSE)
             /\ input \notin { <<"1">>, <<"2">>, <<"3">> } =>
                  pc' = "prompting" /\ callOutcome' = Null ]_vars

\* C31 witness: after the end of input and an invalid entry were answered by
\* a new prompt, the third read returned allow_always
C31_Witness ==
  /\ pc = "returned"
  /\ attempts = 3
  /\ transport[1] = EndOfInput
  /\ transport[2] = Typed(<<"4","\n">>)
  /\ callOutcome = ApprovalResult("allow_always", TRUE)

(***************************************************************************)
(* Two PermissionManager instances on one permissions.toml                 *)
(*                                                                         *)
(* In this specification permissionSettings holds the cache of each        *)
(* instance, and pc names the operation that returned last: the instance   *)
(* it was called on, the method, and how it ended.                         *)
(***************************************************************************)
\* loadSettings reading the configuration on every call
loadSettingsOfRereads(cache, stored) == [ settings |-> stored, read |-> TRUE ]

\* PermissionManager.loadSettings of an instance whose cache is cache while
\* permissions.toml holds stored: the settings it returns, and whether it
\* called getPermissionSettings
loadSettingsOf(cache, stored) ==
  IF cache = Null
  THEN [ settings |-> stored, read |-> TRUE ]
  ELSE [ settings |-> cache, read |-> FALSE ]

LastOperation(instance, method, outcome) ==
  [ instance |-> instance, method |-> method, outcome |-> outcome ]

\* The request the sessions check: name and parameters, no approval flag
SharedCalls ==
  { [ toolName |-> i.toolName, parameters |-> i.parameters, requiresApproval |-> << >> ] :
      i \in { WriteNotes } }

\* The tool the operators add to and remove from the list
SharedTools == {"write_to_file"}

\* The levels the operators set
SharedLevels == {"strict", "permissive"}

SharedInit ==
  /\ pc = LastOperation("none", "constructed", "none")
  /\ iteration = 0
  /\ modelCalls = 0
  /\ allToolCalls = << >>
  /\ toolCall = Null
  /\ permissionResult = Null
  /\ approval = "none"
  /\ toolResult = Null
  /\ recorded = << >>
  /\ nCorrective = 0
  /\ zeroBlockCompletions = 0
  /\ exitReason = "none"
  /\ warned = FALSE
  /\ permissionSettings = [ i \in Instances |-> Null ]
  /\ storedPermissions \in { DefaultPermissions(level) : level \in SharedLevels }
  /\ securitySettings = DefaultSecurity
  /\ handlerInvoked = FALSE
  /\ ClientIdle
  /\ SessionIdle
  /\ SharedIdle

\* What the operations of a PermissionManager leave alone
sharedFrame == << iteration, modelCalls, allToolCalls, approval, toolResult, recorded,
                  nCorrective, zeroBlockCompletions, exitReason, warned,
                  securitySettings, handlerInvoked >>

\* loadSettings as the first statement of an operation of instance i
Loaded(i) == loadSettingsOf(permissionSettings[i], storedPermissions)

CountRead(i) ==
  configReads' = [ configReads EXCEPT ![i] = IF Loaded(i).read THEN @ + 1 ELSE @ ]

\* PermissionManager.checkPermission called on instance i
CheckPermissionBy(i) ==
  /\ \E call \in SharedCalls :
       /\ toolCall' = call
       /\ permissionResult' = checkPermission(call, Loaded(i).settings, securitySettings)
  /\ permissionSettings' = [ permissionSettings EXCEPT ![i] = Loaded(i).settings ]
  /\ CountRead(i)
  /\ pc' = LastOperation(i, "checkPermission", "returned")
  /\ UNCHANGED << storedPermissions, lastSaver, sharedFrame, clientVars, sessionVars >>

\* A mutator of instance i from its change of the loaded object to the end of
\* saveSettings: the object is the cache, changed in place before the save; the
\* save writes the whole object
SaveBy(i, method, settings, saveOk) ==
  /\ permissionSettings' = [ permissionSettings EXCEPT ![i] = settings ]
  /\ IF saveOk
     THEN /\ storedPermissions' = settings
          /\ lastSaver' = i
          /\ pc' = LastOperation(i, method, "saved")
     ELSE /\ UNCHANGED << storedPermissions, lastSaver >>
          /\ pc' = LastOperation(i, method, "raised")

\* A mutator of instance i that finds nothing to change
UnsavedBy(i, method) ==
  /\ permissionSettings' = [ permissionSettings EXCEPT ![i] = Loaded(i).settings ]
  /\ pc' = LastOperation(i, method, "returned")
  /\ UNCHANGED << storedPermissions, lastSaver >>

\* PermissionManager.addToPermanentlyAllowed called on instance i
AddBy(i) ==
  /\ \E toolName \in SharedTools, saveOk \in BOOLEAN :
       IF ~listIncludes(Loaded(i).settings.permanentlyAllowed, toolName)
       THEN SaveBy(i, "addToPermanentlyAllowed",
                   addToPermanentlyAllowed(Loaded(i).settings, toolName), saveOk)
       ELSE UnsavedBy(i, "addToPermanentlyAllowed")
  /\ CountRead(i)
  /\ UNCHANGED << toolCall, permissionResult, sharedFrame, clientVars, sessionVars >>

\* PermissionManager.removeFromPermanentlyAllowed called on instance i
RemoveBy(i) ==
  /\ \E toolName \in SharedTools, saveOk \in BOOLEAN :
       IF indexOf(Loaded(i).settings.permanentlyAllowed, toolName) # 0
       THEN SaveBy(i, "removeFromPermanentlyAllowed",
                   removeFromPermanentlyAllowed(Loaded(i).settings, toolName), saveOk)
       ELSE UnsavedBy(i, "removeFromPermanentlyAllowed")
  /\ CountRead(i)
  /\ UNCHANGED << toolCall, permissionResult, sharedFrame, clientVars, sessionVars >>

\* PermissionManager.setPermissionLevel called on instance i
SetLevelBy(i) ==
  /\ \E level \in SharedLevels, saveOk \in BOOLEAN :
       SaveBy(i, "setPermissionLevel", setPermissionLevel(Loaded(i).settings, level), saveOk)
  /\ CountRead(i)
  /\ UNCHANGED << toolCall, permissionResult, sharedFrame, clientVars, sessionVars >>

CheckPermissionOfSome == \E i \in Instances : CheckPermissionBy(i)

AddOfSome == \E i \in Instances : AddBy(i)

RemoveOfSome == \E i \in Instances : RemoveBy(i)

SetLevelOfSome == \E i \in Instances : SetLevelBy(i)

SharedNext ==
  \/ CheckPermissionOfSome
  \/ AddOfSome
  \/ RemoveOfSome
  \/ SetLevelOfSome

SharedSpec == SharedInit /\ [][SharedNext]_vars

(***************************************************************************)
(* Properties of the cache of an instance (SharedSpec)                     *)
(***************************************************************************)
Mutators == {"addToPermanentlyAllowed", "removeFromPermanentlyAllowed", "setPermissionLevel"}

\* C32: an instance reads the settings from the configuration at most once,
\* on first use; once its cache is filled, checkPermission decides on the
\* cached settings and leaves them alone, and the cache changes only by a
\* mutator called on that instance, whatever another instance has persisted.
C32_ReadsOnceThenCache ==
  [][ \A i \in Instances :
        /\ configReads'[i] <= 1
        /\ permissionSettings[i] # Null =>
             /\ configReads'[i] = configReads[i]
             /\ permissionSettings'[i] # permissionSettings[i] =>
                  pc'.instance = i /\ pc'.method \in Mutators
             /\ (pc'.instance = i /\ pc'.method = "checkPermission") =>
                  permissionResult' =
                    checkPermission(toolCall', permissionSettings[i], securitySettings) ]_vars

\* C32 witness: instance b persisted write_to_file as permanently allowed
\* after instance a had filled its cache; a's checkPermission still asks for
\* approval of a write, which the persisted settings would allow outright
C32_Witness ==
  /\ pc = LastOperation("a", "checkPermission", "returned")
  /\ lastSaver = "b"
  /\ toolCall.toolName = "write_to_file"
  /\ listIncludes(storedPermissions.permanentlyAllowed, "write_to_file")
  /\ ~listIncludes(permissionSettings["a"].permanentlyAllowed, "write_to_file")
  /\ permissionResult.requiresApproval
  /\ ~checkPermission(toolCall, storedPermissions, securitySettings).requiresApproval
  /\ configReads["a"] = 1

(***************************************************************************)
(* Properties of concurrent sessions (SharedSpec)                          *)
(***************************************************************************)
\* C33: however two instances interleave their mutators, every save writes
\* the saving instance's whole cached settings, the persisted settings always
\* equal the cached settings of the instance whose save completed last, and
\* no instance's cache is changed by an operation of the other instance.
C33_LastWriterWins ==
  [][ /\ pc'.outcome = "saved" =>
           /\ lastSaver' = pc'.instance
           /\ storedPermissions' = permissionSettings'[pc'.instance]
      /\ lastSaver' # "none" => storedPermissions' = permissionSettings'[lastSaver']
      /\ \A i \in Instances :
           pc'.instance # i => permissionSettings'[i] = permissionSettings[i] ]_vars

(***************************************************************************)
(* Properties of the reject record (PolicySpec)                            *)
(***************************************************************************)
\* What a caller sees of a decision: allowed, requiresApproval and the risk
Decision(result) ==
  IF IsRaised(result) THEN << "raised" >>
  ELSE << result.allowed, result.requiresApproval, result.securityResult.riskLevel >>

MaxMessages == 7

\* HistoryRecorder.startSession: the message of role 'system'
SystemMessage == Message("system", "system_prompt", TRUE, "", "")

\* recordMessage putting the message in front
recordMessagePrepends(messages, message) == << message >> \o messages

\* HistoryRecorder.recordMessage: session.messages.push(messageWithTimestamp)
recordMessage(messages, message) == Append(messages, message)

\* HistoryRecorder.recordMessage: saveSessionToFile runs when the length is a
\* multiple of 5
SavesSession(messages) == Len(messages) % 5 = 0

\* What a pass does after the assistant message was recorded, and the message
\* it records (<< >> for none)
PassFeedback ==
  [ multiple_tool_calls |-> << ToolResponse(FALSE, "multiple_tool_calls", "") >>,
    no_tool_call        |-> << NoToolCallWarning >>,
    unparsed_block      |-> << >>,
    not_permitted       |-> << ToolResponse(FALSE, "high_risk_command", "") >>,
    denied_by_user      |-> << ToolResponse(FALSE, "denied_by_user", "") >>,
    tool_failed         |-> << ToolResponse(FALSE, "unknown_tool", "") >>,
    tool_succeeded      |-> << ToolResponse(TRUE, "", "written") >>,
    responded           |-> << RespondedMessage >>,
    raised              |-> << >> ]

\* The passes after which llmLoop is left
EndsTurn(feedback) == feedback \in {"responded", "raised"}

HistoryInit ==
  /\ pc = "constructed"
  /\ iteration = 0
  /\ modelCalls = 0
  /\ allToolCalls = << >>
  /\ toolCall = Null
  /\ permissionResult = Null
  /\ approval = "none"
  /\ toolResult = Null
  /\ recorded = << >>
  /\ nCorrective = 0
  /\ zeroBlockCompletions = 0
  /\ exitReason = "none"
  /\ warned = FALSE
  /\ permissionSettings = Null
  /\ storedPermissions = DefaultPermissions("strict")
  /\ securitySettings = DefaultSecurity
  /\ handlerInvoked = FALSE
  /\ ClientIdle
  /\ SessionIdle
  /\ SharedIdle

historyFrame == << iteration, modelCalls, allToolCalls, toolCall, permissionResult,
                   approval, toolResult, nCorrective, zeroBlockCompletions, exitReason,
                   warned, permissionSettings, storedPermissions, securitySettings,
                   handlerInvoked, clientVars, sessionVars, sharedVars >>

\* HistoryRecorder.startSession
StartSession ==
  /\ pc = "constructed"
  /\ recorded' = recordMessage(<< >>, SystemMessage)
  /\ pc' = "idle"
  /\ UNCHANGED historyFrame

\* processUserMessage: the user's message is recorded and llmLoop is called;
\* recordMessage raises when its save of the session fails
RecordUserMessage ==
  /\ pc = "idle"
  /\ Len(recorded) < MaxMessages
  /\ recorded' = recordMessage(recorded, UserInputMessage)
  /\ \E saveOk \in BOOLEAN :
       pc' = IF SavesSession(recorded') /\ ~saveOk THEN "idle" ELSE "loop"
  /\ UNCHANGED historyFrame

\* llmLoop: getSession, chatCompletion on session.messages and the record of
\* the assistant message
RecordAssistantMessage ==
  /\ pc = "loop"
  /\ Len(recorded) < MaxMessages
  /\ \E completes \in BOOLEAN, saveOk \in BOOLEAN :
       IF ~completes
       THEN pc' = "idle" /\ UNCHANGED recorded
       ELSE /\ recorded' = recordMessage(recorded, AssistantMessage)
            /\ pc' = IF SavesSession(recorded') /\ ~saveOk THEN "idle" ELSE "HasResponse"
  /\ UNCHANGED historyFrame

\* llmLoop and handleToolCall: the rest of the pass
RecordFeedback ==
  /\ pc = "HasResponse"
  /\ Len(recorded) < MaxMessages
  /\ \E feedback \in DOMAIN PassFeedback, saveOk \in BOOLEAN :
       IF PassFeedback[feedback] = << >>
       THEN /\ UNCHANGED recorded
            /\ pc' = IF EndsTurn(feedback) THEN "idle" ELSE "loop"
       ELSE /\ recorded' = recordMessage(recorded, PassFeedback[feedback][1])
            /\ pc' = IF EndsTurn(feedback) \/ (SavesSession(recorded') /\ ~saveOk)
                     THEN "idle" ELSE "loop"
  /\ UNCHANGED historyFrame

HistoryNext ==
  \/ StartSession
  \/ RecordUserMessage
  \/ RecordAssistantMessage
  \/ RecordFeedback

HistorySpec == HistoryInit /\ [][HistoryNext]_vars

(***************************************************************************)
(* Properties of the conversation (HistorySpec)                            *)
(***************************************************************************)
IsPrefix(p, q) == Len(p) <= Len(q) /\ SubSeq(q, 1, Len(p)) = p

\* C35: once the session has started its first message is the system prompt,
\* and every operation of the agent loop only appends: the messages before
\* the operation are a prefix of the messages after it.
C35_AppendOnly ==
  [][ /\ pc' # "constructed" => (recorded' # << >> /\ recorded'[1] = SystemMessage)
      /\ IsPrefix(recorded, recorded') ]_vars

\* C35 witness: a turn of two passes has ended with the response shown; the
\* conversation begins with the system prompt and has passed the length at
\* which the session is saved
C35_Witness ==
  /\ pc = "idle"
  /\ Len(recorded) >= 6
  /\ recorded[1] = SystemMessage
  /\ recorded[2] = UserInputMessage
  /\ Last(recorded) = RespondedMessage

(***************************************************************************)
(* Properties of the decoding of parameter values (CodecSpec)              *)
(***************************************************************************)
\* The value the decoding rules give to the text of a parameter tag, rule by
\* rule: a bracketed list of integers is the parsed JSON value, bracketed
\* text that is not JSON is the text, digits are an integer, digits '.'
\* digits a float, true or false in any case a boolean, any other text a
\* string; the text is trimmed and its \n and \t unescaped first
DecodedByRules(param) ==
  CASE param = PathParameter          -> Str(<<"a",".","t","x","t">>)
    [] param = PaddedPathParameter    -> Str(<<"a",".","t","x","t">>)
    [] param = CountParameter         -> Num(<<"7">>)
    [] param = RatioParameter         -> Num(<<"1",".","5">>)
    [] param = TypeParameter          -> Bool(<<"t","r","u","e">>)
    [] param = ContentParameter       -> Num(<<"4","2">>)
    [] param = MarkupContentParameter -> Str(<<"<","b",">","x","<","/","b",">">>)
    [] param = MessageParameter       -> Str(<<"h","i","\n","y","o","u">>)
    [] param = EmptyMessageParameter  -> Str(<< >>)
    [] param = IdsParameter           -> Json(<<"[","1",",","2","]">>)
    [] param = OptionsParameter       -> Str(<<"{","x","}">>)
    [] param = PathsParameter         -> Str(trim(PathsParameter.raw))

\* The parameters parseXmlToolCall does not hand to parseParameterValue:
\* content, and the paths of read_files
KeptFromDecoding(invocation, param) ==
  \/ param.name = Spelling.content
  \/ invocation.toolName = Spelling.read_files /\ param.name = Spelling.paths

\* C36 as stated: every parameter value of a parsed invocation is the value
\* the decoding rules give to the text of its tag.
C36_EveryValueDecoded ==
  [][ \A invocation \in CodecInvocations, separator \in Separators :
        (allToolCalls = << FormatToolCall(invocation, separator) >>) =>
          \A i \in 1..Len(invocation.params) :
            toolCall'.parameters[Intern(invocation.params[i].name)]
              = DecodedByRules(invocation.params[i]) ]_vars

\* C36: every parameter value of a parsed invocation other than content and
\* the paths of read_files is the value the decoding rules give to the text
\* of its tag; content is the trimmed text of its tag as a string, and the
\* paths of read_files are the list of the paths of the nested path tags.
C36_ValuesDecodedButContent ==
  [][ \A invocation \in CodecInvocations, separator \in Separators :
        (allToolCalls = << FormatToolCall(invocation, separator) >>) =>
          \A i \in 1..Len(invocation.params) :
            LET param == invocation.params[i]
                parsedValue == toolCall'.parameters[Intern(param.name)]
            IN /\ ~KeptFromDecoding(invocation, param) =>
                    parsedValue = DecodedByRules(param)
               /\ param.name = Spelling.content =>
                    parsedValue = Str(trim(param.raw))
               /\ (invocation.toolName = Spelling.read_files
                     /\ param.name = Spelling.paths) =>
                    parsedValue = PathRecords(param.raw) ]_vars

\* C36 witness: a block with a type tag holding TRUE and a content tag
\* holding digits was parsed: type is the boolean, content the text
C36_Witness ==
  /\ pc = "parsed"
  /\ allToolCalls = << FormatToolCall([ toolName |-> Spelling.write_to_file,
                                        params |-> << TypeParameter, ContentParameter >> ],
                                      << >>) >>
  /\ toolCall.parameters = [ type |-> Bool(<<"t","r","u","e">>), content |-> Str(<<"4","2">>) ]

(***************************************************************************)
(* findMatchingPattern as a function of the command and the pattern        *)
(***************************************************************************)
\* The commands the patterns are tried on
CommandUpperAbc == Str(<<"A","B","C">>)

CommandLowerAbc == Str(<<"a","b","c">>)

CommandInnerAbc == Str(<<"x","a","B","c","x">>)

CommandDashedAc == Str(<<"a","-","c">>)

CommandDottedAc == Str(<<"A",".","C">>)

CommandSlashedParen == Str(<<"/","a","(","/">>)

CommandUpperSlashedParen == Str(<<"X","/","A","(","/","y">>)

CommandBareParen == Str(<<"a","(">>)

CommandRm == Str(<<"r","m">>)

\* a command of digits, decoded to a number
CommandNumber == Num(<<"4","2">>)

PatternCommands ==
  { CommandUpperAbc,
    CommandLowerAbc,
    CommandInnerAbc,
    CommandDashedAc,
    CommandDottedAc,
    CommandSlashedParen,
    CommandUpperSlashedParen,
    CommandBareParen,
    CommandRm,
    CommandNumber }

\* The patterns of a blocklist: written as /.../ or not
PatternRegexAbc == <<"/","a","b","c","/">>

PatternPlainAbc == <<"A","B","C">>

PatternRegexAnyAc == <<"/","a",".","c","/">>

PatternPlainDottedAc == <<"a",".","c">>

PatternBadRegex == <<"/","a","(","/">>

PatternPlainParen == <<"a","(">>

PatternPlainRm == <<"r","m">>

RiskPatterns ==
  { PatternRegexAbc,
    PatternPlainAbc,
    PatternRegexAnyAc,
    PatternPlainDottedAc,
    PatternBadRegex,
    PatternPlainParen,
    PatternPlainRm }

PatternInit ==
  /\ pc = "unmatched"
  /\ iteration = 0
  /\ modelCalls = 0
  /\ allToolCalls = << >>
  /\ toolCall \in { [ toolName |-> "execute_command", parameters |-> [ command |-> c ],
                       requiresApproval |-> << >> ] : c \in PatternCommands }
  /\ permissionResult = Null
  /\ approval = "none"
  /\ toolResult = Null
  /\ recorded = << >>
  /\ nCorrective = 0
  /\ zeroBlockCompletions = 0
  /\ exitReason = "none"
  /\ warned = FALSE
  /\ permissionSettings = Null
  /\ storedPermissions = DefaultPermissions("strict")
  /\ securitySettings \in { [ enableBlocklist |-> TRUE, customBlocklist |-> << p >>,
                               riskLevels |-> DefaultRiskLevels,
                               showSecurityWarnings |-> TRUE ] : p \in RiskPatterns }
  /\ handlerInvoked = FALSE
  /\ transport = << >>
  /\ attempt = 0
  /\ attempts = 0
  /\ delays = << >>
  /\ lastError = Null
  /\ callOutcome = Null
  /\ SessionIdle
  /\ SharedIdle

\* this.findMatchingPattern(command, this.settings.customBlocklist) of
\* checkCommand: the index of the matching pattern, 0 for null, or raised
ApplyFindMatchingPattern ==
  /\ pc = "unmatched"
  /\ callOutcome' =
       LET matched == findMatchingPattern(toolCall.parameters["command"],
                                          securitySettings.customBlocklist)
       IN IF matched = -1 THEN Raised ELSE [ matched |-> matched ]
  /\ pc' = "matched"
  /\ UNCHANGED << iteration, modelCalls, allToolCalls, toolCall, permissionResult,
                  approval, toolResult, recorded, nCorrective, zeroBlockCompletions,
                  exitReason, warned, permissionSettings, storedPermissions,
                  securitySettings, handlerInvoked >>
  /\ UNCHANGED << transport, attempt, attempts, delays, lastError >>
  /\ UNCHANGED sessionVars
  /\ UNCHANGED sharedVars

PatternNext == ApplyFindMatchingPattern

PatternSpec == PatternInit /\ [][PatternNext]_vars

(***************************************************************************)
(* Properties of the pattern matching (PatternSpec)                        *)
(***************************************************************************)
\* The commands each pattern matches: /abc/ and /a.c/ as regular expressions
\* without regard to case, ABC, a.c, a( and rm as substrings without regard
\* to case, and /a(/, which is no regular expression, as the substring /a(/
MatchedBy(pattern) ==
  CASE pattern = PatternRegexAbc -> { CommandUpperAbc, CommandLowerAbc, CommandInnerAbc }
    [] pattern = PatternPlainAbc -> { CommandUpperAbc, CommandLowerAbc, CommandInnerAbc }
    [] pattern = PatternRegexAnyAc -> { CommandUpperAbc, CommandLowerAbc, CommandInnerAbc, CommandDashedAc, CommandDottedAc }
    [] pattern = PatternPlainDottedAc -> { CommandDottedAc }
    [] pattern = PatternBadRegex -> { CommandSlashedParen, CommandUpperSlashedParen }
    [] pattern = PatternPlainParen -> { CommandSlashedParen, CommandUpperSlashedParen, CommandBareParen }
    [] pattern = PatternPlainRm -> { CommandRm }

\* C37: for a command that is text, a pattern written as /.../ matches as a
\* regular expression without regard to case, any other pattern as a
\* substring without regard to case, and a /.../ pattern that does not
\* compile as the substring it is written as, without raising.
C37_PatternKinds ==
  (pc = "matched" /\ toolCall.parameters["command"].t = "string") =>
    /\ ~IsRaised(callOutcome)
    /\ (callOutcome.matched = 1) <=>
         (toolCall.parameters["command"] \in MatchedBy(securitySettings.customBlocklist[1]))

\* C37 witness: the pattern /a(/, which does not compile, was tried on the
\* command X/A(/y and matched it
C37_Witness ==
  /\ pc = "matched"
  /\ securitySettings.customBlocklist = << PatternBadRegex >>
  /\ toolCall.parameters["command"] = CommandUpperSlashedParen
  /\ callOutcome = [ matched |-> 1 ]

(***************************************************************************)
(* Properties of the risk decisions (PolicySpec)                           *)
(***************************************************************************)
\* C38: every decision of the security check is of high risk exactly when it
\* denies; so at the permissive level an invocation that is allowed and
\* carries no approval flag does not require approval.
C38_HighRiskIsDenied ==
  (pc = "decided" /\ ~IsRaised(SecurityVerdict)) =>
    /\ (SecurityVerdict.riskLevel = "high") <=> ~SecurityVerdict.allowed
    /\ permissionResult.securityResult = SecurityVerdict
    /\ ( /\ permissionSettings.permissionLevel = "permissive"
         /\ permissionResult.allowed
         /\ toolCall.requiresApproval = << >> ) => ~permissionResult.requiresApproval

\* C38 witness: at the permissive level a command of medium risk, of a tool
\* that is not permanently allowed and without an approval flag, was allowed
\* without approval
C38_Witness ==
  /\ pc = "decided"
  /\ permissionSettings.permissionLevel = "permissive"
  /\ permissionSettings.permanentlyAllowed = << >>
  /\ toolCall.toolName = "execute_command"
  /\ toolCall.requiresApproval = << >>
  /\ ~IsRaised(permissionResult)
  /\ permissionResult.securityResult.riskLevel = "medium"
  /\ permissionResult.allowed
  /\ ~permissionResult.requiresApproval

(***************************************************************************)
(* Properties of the feedback of a pass (Spec)                             *)
(***************************************************************************)
\* C39: whenever the loop is about to call the model, the messages recorded
\* since the last call end with a message of role user: the user's input
\* before the first pass, and after a pass the assistant message followed by
\* exactly one tool response or corrective instruction.
C39_FeedbackAfterEveryPass ==
  pc = "loop" =>
    \/ recorded = << UserInputMessage >>
    \/ /\ Len(recorded) = 2
       /\ recorded[1] = AssistantMessage
       /\ recorded[2].role = "user"

(***************************************************************************)
(* Properties of the approval gate in the loop (Spec)                      *)
(***************************************************************************)
\* The call with a requiresApproval tag among its parameter tags
WithApprovalParameter(call, value) ==
  [ call EXCEPT !.parameters =
      [ k \in DOMAIN call.parameters \cup {"requiresApproval"} |->
          IF k = "requiresApproval" THEN value ELSE call.parameters[k] ] ]

\* The loaded settings are strict with nothing permanently allowed
StrictAndNothingAllowed ==
  /\ loadSettings.permissionLevel = "strict"
  /\ loadSettings.permanentlyAllowed = << >>

\* The loop hands checkPermission no approval flag, and a requiresApproval
\* parameter does not change the decision
NoApprovalFlag ==
  /\ pc' = "AwaitingPermission" => toolCall'.requiresApproval = << >>
  /\ pc = "AwaitingPermission" =>
       \A value \in { Bool(<<"t","r","u","e">>), Bool(<<"f","a","l","s","e">>) } :
         Decision(checkPermission(WithApprovalParameter(toolCall, value),
                                  loadSettings, securitySettings))
           = Decision(checkPermission(toolCall, loadSettings, securitySettings))

\* A denial at the approval gate records its tool response and goes on with
\* the next pass
DenyKeepsTurnRunning ==
  (pc = "AwaitingApproval" /\ recorded' # recorded) =>
    /\ recorded' = Append(recorded, ToolResponse(FALSE, "denied_by_user", ""))
    /\ pc' = "loop"
    /\ exitReason' = "none"

====
